---- MODULE Spec2Model ----
(***************************************************************************)
(* Hydrogen-demand model of the WECC (on-road transport and industry):     *)
(* temporal disaggregation of annual totals into hourly profiles, the      *)
(* combination of the two sectors' outputs, and the reconciliation of the  *)
(* industry bottom-up estimate against the MECS survey totals.             *)
(*                                                                         *)
(* Floating-point columns are modelled by exact fractions.  A column of    *)
(* floats is an "array" [nums |-> <<n1, ..., nk>>, den |-> d] whose i-th    *)
(* element is nums[i] / d; den = 0 stands for a column in which no element *)
(* is a finite number (NaN or inf: a division by a zero sum, which numpy   *)
(* evaluates with a warning and without raising, hits every row at once).  *)
(***************************************************************************)
EXTENDS Integers, Sequences, FiniteSets, TLC

----------------------------------------------------------------------------
(* Arithmetic helpers *)

RECURSIVE GCD(_, _)
GCD(a, b) == IF b = 0 THEN a ELSE GCD(b, a % b)

Min(a, b) == IF a < b THEN a ELSE b

\* Sum of s[lo..hi], split in halves to keep the recursion shallow.
RECURSIVE SumRange(_, _, _)
SumRange(s, lo, hi) ==
    IF lo > hi THEN 0
    ELSE IF lo = hi THEN s[lo]
    ELSE LET mid == (lo + hi) \div 2
         IN SumRange(s, lo, mid) + SumRange(s, mid + 1, hi)

SeqSum(s) == SumRange(s, 1, Len(s))

\* The sequence s itself, held as an explicit tuple rather than as a rule.
Tuple(s) == s \o <<>>

\* A scalar float: <<p, q>> is p/q in lowest terms; q = 0 is inf (p > 0) or NaN (p = 0).
Rat(p, q) ==
    IF q = 0 THEN <<(IF p > 0 THEN 1 ELSE 0), 0>>
    ELSE LET g == GCD(p, q) IN <<p \div g, q \div g>>

NaN == <<0, 0>>

----------------------------------------------------------------------------
(* Column (numpy array / pandas Series) operations *)

IntArray(nums) == [nums |-> Tuple(nums), den |-> 1]

NaNArray(n) == [nums |-> Tuple([i \in 1..n |-> 0]), den |-> 0]

ArrLen(a) == Len(a.nums)

\* Series.sum() / ndarray.sum()
ArrSum(a) == IF a.den = 0 THEN NaN ELSE Rat(SeqSum(a.nums), a.den)

\* a / r : every element divided by the scalar r = <<p, q>>, i.e. multiplied by q/p
ArrDivScalar(a, r) ==
    IF a.den = 0 \/ r[2] = 0 \/ r[1] = 0 THEN NaNArray(ArrLen(a))
    ELSE LET g == GCD(r[2], a.den)
         IN [nums |-> Tuple([i \in 1..ArrLen(a) |-> a.nums[i] * (r[2] \div g)]),
             den  |-> (a.den \div g) * r[1]]

\* Every weight divided by the number of weights
NormalizeByLength(profile) == ArrDivScalar(profile, <<ArrLen(profile), 1>>)

\* profile / profile.sum(): every weight divided by the sum of the weights
Normalize(profile) == ArrDivScalar(profile, ArrSum(profile))

\* a * r : every element multiplied by the scalar r = <<p, q>>
ArrMulScalar(a, r) ==
    IF a.den = 0 \/ r[2] = 0 THEN NaNArray(ArrLen(a))
    ELSE LET g == GCD(r[1], a.den)
         IN [nums |-> Tuple([i \in 1..ArrLen(a) |-> a.nums[i] * (r[1] \div g)]),
             den  |-> (a.den \div g) * r[2]]

\* a * b elementwise
ArrMul(a, b) ==
    IF a.den = 0 \/ b.den = 0 THEN NaNArray(ArrLen(a))
    ELSE [nums |-> Tuple([i \in 1..ArrLen(a) |-> a.nums[i] * b.nums[i]]),
          den  |-> a.den * b.den]

\* a + b elementwise
ArrAdd(a, b) ==
    IF a.den = 0 \/ b.den = 0 THEN NaNArray(ArrLen(a))
    ELSE LET g == GCD(a.den, b.den)
             fa == b.den \div g
             fb == a.den \div g
         IN [nums |-> Tuple([i \in 1..ArrLen(a) |-> a.nums[i] * fa + b.nums[i] * fb]),
             den  |-> a.den * fa]

\* a[idx] with zero-based integer positions idx; numpy raises IndexError for a
\* position outside the array
IndexInBounds(a, idx) == LET n == ArrLen(a) IN \A i \in 1..Len(idx) : idx[i] < n

ArrTake(a, idx) ==
    [nums |-> Tuple([i \in 1..Len(idx) |-> a.nums[idx[i] + 1]]), den |-> a.den]

\* scalar / scalar
RatDiv(x, r) ==
    IF r[2] = 0 THEN (IF r[1] = 0 THEN NaN ELSE <<0, 1>>)
    ELSE IF r[1] = 0 THEN (IF x > 0 THEN <<1, 0>> ELSE NaN)
    ELSE Rat(x * r[2], r[1])

----------------------------------------------------------------------------
(* Calendar *)

HoursPerDay == 24
DaysPerWeek == 7
LastWeekIndex == 52

IsLeap(y) == (y % 4 = 0 /\ y % 100 # 0) \/ y % 400 = 0

DaysInYear(y) == IF IsLeap(y) THEN 366 ELSE 365

\* Timestamp.weekday() of January 1st of year y (Monday = 0, ..., Sunday = 6);
\* 2001-01-01 was a Monday.
Jan1Weekday(y) ==
    LET n == y - 2001
    IN (n * 365 + n \div 4 - n \div 100 + n \div 400) % 7

\* pd.date_range(f'{year}-01-01 00:00', f'{year}-12-31 23:00', freq='h'):
\* hour h = 1..HoursInYear(y) is day (h-1) \div 24 of the year, clock hour (h-1) % 24
HoursInYear(y) == DaysInYear(y) * HoursPerDay

----------------------------------------------------------------------------
(* transport/build_transport_profile.py: disaggregate_annual_to_hourly *)

WeekIndex(year) ==
    Tuple([h \in 1..HoursInYear(year) |->
        LET days_since_start == (h - 1) \div HoursPerDay
        IN Min(days_since_start \div DaysPerWeek, LastWeekIndex)])

\* The hour of the week counted from Monday 00:00, as Timestamp.weekday() counts
HourOfWeekFromMonday(year) ==
    Tuple([h \in 1..HoursInYear(year) |->
        LET days_since_start == (h - 1) \div HoursPerDay
            weekday == (Jan1Weekday(year) + days_since_start) % DaysPerWeek
            hour == (h - 1) % HoursPerDay
        IN weekday * HoursPerDay + hour])

\* hour_of_week: ((weekday + 1) % 7) * 24 + hour, index 0 being Sunday 00:00
HourOfWeek(year) ==
    Tuple([h \in 1..HoursInYear(year) |->
        LET days_since_start == (h - 1) \div HoursPerDay
            weekday == (Jan1Weekday(year) + days_since_start) % DaysPerWeek
            sunday_start_weekday == (weekday + 1) % DaysPerWeek
            hour == (h - 1) % HoursPerDay
        IN sunday_start_weekday * HoursPerDay + hour])

\* What a call does: it returns a column of floats, or raises.
Returned(a) == [raised |-> "none", value |-> a]
Raised(e) == [raised |-> e, value |-> IntArray(<<>>)]

\* The 'hourly_value' column of the returned frame (its 'datetime' column is the
\* hour h of the year, in order); IndexError when a lookup position lies outside
\* its profile.
disaggregate_annual_to_hourly(annual_total, hourly_week_profile, weekly_year_profile, year) ==
    LET week_index  == WeekIndex(year)
        hour_of_week == HourOfWeek(year)
        hourly_week_profile_norm == Normalize(hourly_week_profile)
        weekly_year_profile_norm == Normalize(weekly_year_profile)
    IN IF ~IndexInBounds(hourly_week_profile_norm, hour_of_week) THEN Raised("IndexError")
       ELSE IF ~IndexInBounds(weekly_year_profile_norm, week_index) THEN Raised("IndexError")
       ELSE LET hourly_shape == ArrTake(hourly_week_profile_norm, hour_of_week)
                weekly_shape == ArrTake(weekly_year_profile_norm, week_index)
                combined_shape == ArrMul(hourly_shape, weekly_shape)
            IN Returned(ArrMulScalar(combined_shape,
                                     RatDiv(annual_total, ArrSum(combined_shape))))

\* df['datetime'].dt.day_name() of hour h, as the weekday number (Monday = 0)
DayOfWeek(year, h) == (Jan1Weekday(year) + (h - 1) \div HoursPerDay) % DaysPerWeek

Sunday == 6

\* df['datetime'].dt.hour of hour h
ClockHour(h) == (h - 1) % HoursPerDay

\* zero-based calendar month of hour h of the year
DaysInMonth(year) ==
    <<31, IF IsLeap(year) THEN 29 ELSE 28, 31, 30, 31, 30, 31, 31, 30, 31, 30, 31>>

RECURSIVE MonthOfDay(_, _, _)
MonthOfDay(year, d, m) ==
    IF d < DaysInMonth(year)[m + 1] THEN m
    ELSE MonthOfDay(year, d - DaysInMonth(year)[m + 1], m + 1)

MonthIndex(year, h) == MonthOfDay(year, (h - 1) \div HoursPerDay, 0)

----------------------------------------------------------------------------
(* Profile inputs *)

MaxAnnual == 3
YearSpan == 2
FirstModelYear == 2023

ModelYears == FirstModelYear..(FirstModelYear + YearSpan)
AnnualTotals == (0..MaxAnnual) \cup {3650}

HoursPerWeek == DaysPerWeek * HoursPerDay

\* hourly-of-week profiles (168 values, index 0 = Sunday 00:00)
WeekShapeNames == {"uniform", "sunday0", "weekend", "zero"}

WeekShape(name) ==
    IntArray([k \in 1..HoursPerWeek |->
        CASE name = "uniform" -> 1
          [] name = "sunday0" -> IF k = 1 THEN 1 ELSE 0
          [] name = "weekend" -> IF (k - 1) \div HoursPerDay \in {0, 6} THEN 1 ELSE 2
          [] OTHER -> 0])

\* seasonal profiles: 53 weekly values, or the 12 values the industry caller passes
YearShapeNames == {"uniform53", "ramp53", "last53", "zero53", "full12"}

YearShape(name) ==
    IF name = "full12" THEN IntArray([k \in 1..12 |-> 1])
    ELSE IntArray([k \in 1..(LastWeekIndex + 1) |->
        CASE name = "uniform53" -> 1
          [] name = "ramp53" -> 1 + (k % 2)
          [] name = "last53" -> IF k = LastWeekIndex + 1 THEN 1 ELSE 0
          [] OTHER -> 0])

AllZero(a) == \A k \in 1..ArrLen(a) : a.nums[k] = 0
AllPositive(a) == \A k \in 1..ArrLen(a) : a.nums[k] > 0

----------------------------------------------------------------------------
(* State *)

VARIABLES
    d_in,    \* arguments of a call of disaggregate_annual_to_hourly
    d_pc,    \* "call" before the call, then "returned" or "raised"
    d_out,   \* what the call returned or raised
    p_sector,              \* whose build_profile runs: "transport" or "industry"
    p_summary,             \* lz_summary_df, the argument of build_profile
    p_shapes,              \* the shape tables build_profile reads from its input files
    p_pc,                  \* position in build_profile
    p_raised,              \* the exception that ended build_profile, or "none"
    p_row,                 \* position of the next row of lz_summary_df.iterrows()
    previous_load_zone,
    profile_across_years,
    p_files,               \* the <load zone>_profile.csv files of the sector's folder
    c_transport_profiles,  \* outputs/transport/demand_profiles/<zone>_profile.csv
    c_industry_profiles,   \* outputs/industry/demand_profiles/<zone>_profile.csv
    c_transport_grids,     \* outputs/transport/<year>_wecc_h2_demand_5km_resolution.gpkg
    c_industry_grids,      \* outputs/industry/<year>_wecc_h2_demand_5km_resolution.gpkg
    c_pc,                  \* position in combine()
    c_raised,              \* the exception that ended combine(), or "none"
    c_todo,                \* files the running loop has not visited yet
    c_combined_profiles,   \* outputs/combined_profile/<zone>_profile.csv
    c_combined_grids,      \* outputs/combined_grid/<year>_wecc_h2_demand_5km_combined.gpkg
    results_by_facility_df,   \* the running frame of facility records of model_one_year
    breakdown_by_fuel_df,     \* fuel use by facility, as calc_epa_ghgrp_fuel_consumption left it
    mecs_data,                \* 'Fossil Fuels Total' * 1e6 of each NAICS code (MMBtu)
    missing_facilities,       \* rows of inputs/facilities_missing_combustion_data/<sector>_facilities.csv
    extra_facilities,         \* rows of inputs/extra_epa_frs_facilities_west/<sector>_facilities.csv
    discrepancies_by_sector,  \* what calc_discrepancies returned
    logs,                     \* the files of the industry logs/ folder, by name
    existing_h2_plants_df,    \* existing_hydrogen_plants_wecc_2023.csv with the columns of step 5
    filtered_df,              \* the final facility-level result of model_one_year
    aggregated_by_lz,         \* what model_one_year returned
    result_grid,              \* outputs/industry/<year>_wecc_h2_demand_5km_resolution.gpkg
    i_pc,                     \* position in model_one_year
    i_raised,                 \* the exception that ended model_one_year, or "none"
    i_todo,                   \* missing-data files the loop of step 2 has not visited yet
    i_sector,                 \* position of the loop of step 3 in sector_by_naics
    state_h2_demand,          \* argument of disaggregate_by_load_zone: <<LD, HD, total>> by FIPS
    state_vmts_totals_dict,   \* state_VMT_summary.csv: <<LD VMT, HD VMT>> by FIPS
    t_todo,                   \* files of VMT_data/ the loop has not visited yet
    t_state_df,               \* logs/h2_demand_breakdown/<year>_<state>_summary.csv, by FIPS
    load_zone_summary,        \* the dictionary of the loop, in insertion order
    load_zone_summary_df,     \* what disaggregate_by_load_zone returned
    wecc_vmt_grid,            \* <year>_wecc_h2_demand_5km_resolution.gpkg
    t_pc,                     \* position in the year's pass of model_transport_demand
    facility_df,              \* argument of a call of aggregate_by_lz
    a_pc,                     \* "call" before the call, then "returned"
    a_out,                    \* the load_zone_summary the call returned
    industry_facilities_df,   \* a file of units_and_fuel/, as its units in groupby order
    breakdown_by_fuel,        \* the per-fuel records of calc_epa_ghgrp_fuel_consumption
    results_by_sector,        \* its facility records
    facility_fuel_demand_mmBtu,       \* running total of the facility in hand
    proj_facility_fuel_demand_mmBtu,  \* running projected total of the facility in hand
    e_unit,                   \* position of the next unit of the file
    e_pc,                     \* position in calc_epa_ghgrp_fuel_consumption
    e_raised,                 \* the exception that ended it, or "none"
    n_profile,                \* a shape: the weights handed to the first normalization
    n_out,                    \* the weights after each normalization made so far
    n_pc,                     \* "call" while normalizations are made
    q_year,                   \* the year the transport parameters are asked for
    q_out,                    \* what get_transport_parameters returned or raised
    q_pc,                     \* position of the call of get_transport_parameters
    s_row,                    \* a row of the fuel data: a state's gasoline and diesel use, thousand barrels
    s_assumptions,            \* the assumptions of the model year
    s_ld_pct,                 \* the LD penetration of the model year, percent
    s_hd_pct,                 \* the HD penetration of the model year, percent
    s_out,                    \* the state's entry of state_h2_demand
    s_pc,                     \* position in the loop body of model_transport_demand
    r_settings,               \* the settings of the run: sectors, years and the parameters of each year
    r_pc,                     \* position of main
    r_index,                  \* index into the parameter lists, carried through a sector's loop over the years
    r_summary,                \* the load zone summary a sector's loop has put together so far
    r_files,                  \* what outputs/ holds: summaries, grids and profiles of each sector
    r_trace,                  \* the stages run so far, each with its sector and model year
    r_raised                  \* the exception that ended the run, with the sector and year it was raised in

dvars == <<d_in, d_pc, d_out>>
pvars == <<p_sector, p_summary, p_shapes, p_pc, p_raised, p_row, previous_load_zone,
           profile_across_years, p_files>>

cvars == <<c_transport_profiles, c_industry_profiles, c_transport_grids, c_industry_grids,
           c_pc, c_raised, c_todo, c_combined_profiles, c_combined_grids>>

ivars == <<results_by_facility_df, breakdown_by_fuel_df, mecs_data, missing_facilities,
           extra_facilities, discrepancies_by_sector, logs, existing_h2_plants_df,
           filtered_df, aggregated_by_lz, result_grid, i_pc, i_raised, i_todo, i_sector>>

tvars == <<state_h2_demand, state_vmts_totals_dict, t_todo, t_state_df, load_zone_summary,
           load_zone_summary_df, wecc_vmt_grid, t_pc>>

avars == <<facility_df, a_pc, a_out>>

evars == <<industry_facilities_df, breakdown_by_fuel, results_by_sector,
           facility_fuel_demand_mmBtu, proj_facility_fuel_demand_mmBtu, e_unit, e_pc, e_raised>>

nvars == <<n_profile, n_out, n_pc>>

qvars == <<q_year, q_out, q_pc>>

svars == <<s_row, s_assumptions, s_ld_pct, s_hd_pct, s_out, s_pc>>

rvars == <<r_settings, r_pc, r_index, r_summary, r_files, r_trace, r_raised>>

vars == <<dvars, pvars, cvars, ivars, tvars, avars, evars, nvars, qvars, svars, rvars>>


----------------------------------------------------------------------------
(* industry/build_industry_profile.py: generate_one_week_normalized_profile *)

DayShapeNames == {"flat", "shift"}

\* 24 hourly values of an average weekday or weekend day (EPRI load shape)
DayShape(name) ==
    IntArray([k \in 1..HoursPerDay |->
        IF name = "shift" /\ (k - 1) \in 8..17 THEN 2 ELSE 1])

generate_one_week_normalized_profile(weekday_profile, weekend_profile) ==
    LET energy_values ==
            IntArray([k \in 1..HoursPerWeek |->
                LET h == k - 1
                    day == h \div HoursPerDay
                    hour_of_day == h % HoursPerDay
                IN IF day \in {0, 6} THEN weekend_profile.nums[hour_of_day + 1]
                   ELSE weekday_profile.nums[hour_of_day + 1]])
    IN Normalize(energy_values)

----------------------------------------------------------------------------
(* build_profile of transport/build_transport_profile.py and of                *)
(* industry/build_industry_profile.py                                          *)

MaxZones == 2

ZoneNames == <<"lz_a", "lz_b", "lz_c", "lz_d">>
Zones == {ZoneNames[z] : z \in 1..Len(ZoneNames)}

\* Model-year lists of a run: one year, or two years in ascending order
YearLists ==
    {<<y>> : y \in ModelYears}
        \cup {<<yy[1], yy[2]>> : yy \in {t \in ModelYears \X ModelYears : t[1] < t[2]}}

\* The load-zone summary a sector's model hands to build_profile: one row per load
\* zone and model year, sorted by load zone and year.
SummaryRows(nzones, years, seed) ==
    [r \in 1..(nzones * Len(years)) |->
        LET zi == ((r - 1) \div Len(years)) + 1
            yi == ((r - 1) % Len(years)) + 1
            ld == (seed + zi) % (MaxAnnual + 1)
            hd == (seed + zi * yi) % (MaxAnnual + 1)
        IN [load_zone |-> ZoneNames[zi], year |-> years[yi],
            LD_h2_demand |-> ld, HD_h2_demand |-> hd, total_h2_demand |-> ld + hd]]

NoArray == IntArray(<<>>)

\* Rows of a frame with a 'datetime' column, in blocks of one year's hours
RECURSIVE SortByDatetime(_)
SortByDatetime(blocks) ==
    IF Len(blocks) <= 1 THEN blocks
    ELSE LET m == CHOOSE i \in 1..Len(blocks) :
                      \A j \in 1..Len(blocks) : blocks[i].year <= blocks[j].year
         IN <<blocks[m]>> \o SortByDatetime(SubSeq(blocks, 1, m - 1)
                                            \o SubSeq(blocks, m + 1, Len(blocks)))

NoFile == [written |-> FALSE, blocks |-> <<>>]



PRaise(e) ==
    /\ p_pc' = "raised"
    /\ p_raised' = e
    /\ UNCHANGED <<p_row, previous_load_zone, profile_across_years, p_files>>

\* Up to the loop: the input files are read, the row of highest demand is looked
\* up in column 'total_h2_demand', previous_load_zone is the first row's zone.
PStart ==
    /\ p_pc = "start"
    /\ IF p_summary.demand_col # "total_h2_demand"
       THEN PRaise("KeyError")
       ELSE /\ p_pc' = "loop"
            /\ previous_load_zone' = p_summary.rows[1].load_zone
            /\ profile_across_years' = <<>>
            /\ UNCHANGED <<p_raised, p_row, p_files>>
    /\ UNCHANGED <<p_sector, p_summary, p_shapes, dvars, cvars, ivars, tvars, avars, evars, nvars,
                 qvars, svars, rvars>>

\* The hourly frame of one summary row, or the exception raised on the way
TransportRowProfile(lz_row) ==
    LET ld_profile == disaggregate_annual_to_hourly(lz_row.LD_h2_demand,
                          WeekShape(p_shapes.ld_hourly), YearShape(p_shapes.ld_weekly),
                          lz_row.year)
        hd_profile == disaggregate_annual_to_hourly(lz_row.HD_h2_demand,
                          WeekShape(p_shapes.hd_hourly), YearShape(p_shapes.hd_weekly),
                          lz_row.year)
    IN IF ld_profile.raised # "none" THEN [raised |-> ld_profile.raised, block |-> <<>>]
       ELSE IF hd_profile.raised # "none" THEN [raised |-> hd_profile.raised, block |-> <<>>]
       ELSE [raised |-> "none",
             block |-> <<[year |-> lz_row.year,
                          ld_h2_demand |-> ld_profile.value,
                          hd_h2_demand |-> hd_profile.value,
                          total_h2_demand |-> ArrAdd(ld_profile.value, hd_profile.value)]>>]

IndustryRowProfile(lz_row) ==
    LET weekly_profile_array ==
            generate_one_week_normalized_profile(DayShape(p_shapes.weekday),
                                                 DayShape(p_shapes.weekend))
        one_year_profile == disaggregate_annual_to_hourly(lz_row.total_h2_demand,
                                weekly_profile_array, IntArray([k \in 1..12 |-> 1]),
                                lz_row.year)
    IN IF one_year_profile.raised # "none"
       THEN [raised |-> one_year_profile.raised, block |-> <<>>]
       ELSE [raised |-> "none",
             block |-> <<[year |-> lz_row.year, ld_h2_demand |-> NoArray,
                          hd_h2_demand |-> NoArray,
                          total_h2_demand |-> one_year_profile.value]>>]

\* One pass of the loop over lz_summary_df.iterrows()
PRow ==
    /\ p_pc = "loop"
    /\ p_row <= Len(p_summary.rows)
    /\ LET lz_row == p_summary.rows[p_row]
           load_zone == lz_row.load_zone
           new_zone == load_zone # previous_load_zone
           files1 == IF new_zone
                     THEN [p_files EXCEPT ![previous_load_zone] =
                              [written |-> TRUE,
                               blocks |-> SortByDatetime(profile_across_years)]]
                     ELSE p_files
           across1 == IF new_zone THEN <<>> ELSE profile_across_years
           got == IF p_sector = "transport" THEN TransportRowProfile(lz_row)
                  ELSE IndustryRowProfile(lz_row)
       IN /\ p_files' = files1
          /\ previous_load_zone' = load_zone
          /\ IF got.raised # "none"
             THEN /\ p_pc' = "raised"
                  /\ p_raised' = got.raised
                  /\ profile_across_years' = across1
                  /\ UNCHANGED p_row
             ELSE /\ profile_across_years' = across1 \o got.block
                  /\ p_row' = p_row + 1
                  /\ UNCHANGED <<p_pc, p_raised>>
    /\ UNCHANGED <<p_sector, p_summary, p_shapes, dvars, cvars, ivars, tvars, avars, evars, nvars,
                 qvars, svars, rvars>>

\* After the loop: the profile of the last load zone is saved (the industry
\* version writes the file and sorts afterwards).
PSaveLast ==
    /\ p_pc = "loop"
    /\ p_row > Len(p_summary.rows)
    /\ LET load_zone == p_summary.rows[Len(p_summary.rows)].load_zone
       IN p_files' = [p_files EXCEPT ![load_zone] =
                        [written |-> TRUE,
                         blocks |-> IF p_sector = "transport"
                                    THEN SortByDatetime(profile_across_years)
                                    ELSE profile_across_years]]
    /\ profile_across_years' = SortByDatetime(profile_across_years)
    /\ p_pc' = "done"
    /\ UNCHANGED <<p_sector, p_summary, p_shapes, p_raised, p_row, previous_load_zone,
                   dvars, cvars, ivars, tvars, avars, evars, nvars, qvars,
                 svars, rvars>>

PNext == PStart \/ PRow \/ PSaveLast

PRowAnnual(lz_row) ==
    IF p_sector = "transport" THEN lz_row.LD_h2_demand + lz_row.HD_h2_demand
    ELSE lz_row.total_h2_demand

PShapesNotAllZero ==
    IF p_sector = "transport"
    THEN \A n \in {p_shapes.ld_hourly, p_shapes.hd_hourly} : ~AllZero(WeekShape(n))
    ELSE TRUE

\* The rows of year `year` in the profile file written for load zone z
PFileYear(z, year) ==
    SelectSeq(p_files[z].blocks, LAMBDA b : b.year = year)

\* C3: when build_profile has ended, every (load zone, year) row of the summary it
\* was given has, in the profile file of its zone, exactly one row per hour of the
\* year, and those rows sum to the row's annual total.
C3_ProfileRows ==
    (p_pc \in {"done", "raised"} /\ p_summary.demand_col = "total_h2_demand"
        /\ PShapesNotAllZero)
        => \A r \in 1..Len(p_summary.rows) :
              LET lz_row == p_summary.rows[r]
                  got == PFileYear(lz_row.load_zone, lz_row.year)
              IN /\ p_files[lz_row.load_zone].written
                 /\ Len(got) = 1
                 /\ ArrLen(got[1].total_h2_demand) = HoursInYear(lz_row.year)
                 /\ got[1].total_h2_demand.den # 0
                 /\ SeqSum(got[1].total_h2_demand.nums)
                        = PRowAnnual(lz_row) * got[1].total_h2_demand.den

----------------------------------------------------------------------------
(* combine_results.py *)

MaxCells == 2
MaxHour == 1

CellNames == <<"cell_1", "cell_2", "cell_3", "cell_4">>
Cells == {CellNames[k] : k \in 1..Len(CellNames)}

\* A missing float (NaN) and a missing timestamp (NaT) of a frame; demands are >= 0
NaNValue == -1
NaT == <<0, 0>>

\* float + float
AddValues(x, y) == IF x = NaNValue \/ y = NaNValue THEN NaNValue ELSE x + y

NoCsv == [exists |-> FALSE, columns |-> {}, rows |-> <<>>]
NoGrid == [exists |-> FALSE, columns |-> {}, cells |-> [g \in Cells |-> NaNValue], has |-> {}]

ZoneIndex(z) == CHOOSE k \in 1..Len(ZoneNames) : ZoneNames[k] = z
CellIndex(g) == CHOOSE k \in 1..Len(CellNames) : CellNames[k] = g

\* Hourly profile files and grids as the two sectors leave them in outputs/: rows
\* of (datetime, demand) for the hours 0..MaxHour of each year, in datetime order
SectorValue(sector, k, year, hour) ==
    IF sector = "transport" THEN k + hour + (year - FirstModelYear)
    ELSE 10 * (k + (year - FirstModelYear)) + hour

ProfileCsv(sector, z, years, col) ==
    [exists |-> TRUE,
     columns |-> {"datetime", col},
     rows |-> [r \in 1..(Len(years) * (MaxHour + 1)) |->
                 LET year == years[((r - 1) \div (MaxHour + 1)) + 1]
                     hour == (r - 1) % (MaxHour + 1)
                 IN [datetime |-> <<year, hour>>,
                     demand |-> SectorValue(sector, ZoneIndex(z), year, hour)]]]

GridFile(sector, cells, year, col) ==
    [exists |-> TRUE,
     columns |-> {"geometry", col},
     cells |-> [g \in Cells |-> IF g \in cells
                                THEN SectorValue(sector, CellIndex(g), year, 0)
                                ELSE NaNValue],
     has |-> cells]

CombineYearLists ==
    {<<FirstModelYear>>, <<FirstModelYear + 1>>, <<FirstModelYear, FirstModelYear + 1>>}

SeqRange(q) == {q[k] : k \in 1..Len(q)}

CInputs == <<c_transport_profiles, c_industry_profiles, c_transport_grids, c_industry_grids>>

\* combine_profiles, up to its loop: the combined folder is emptied, the two
\* folders are listed
CListProfiles ==
    /\ c_pc = "combine"
    /\ c_pc' = "profiles"
    /\ c_todo' = {z \in Zones : c_transport_profiles[z].exists}
    /\ c_combined_profiles' = [z \in Zones |-> NoCsv]
    /\ UNCHANGED <<CInputs, c_raised, c_combined_grids, dvars, pvars, ivars, tvars, avars, evars, nvars,
                 qvars, svars, rvars>>

\* transport_df[col] + industry_df[col]: the two columns are added row position by
\* row position; a position only one of them has gives NaN
AddByPosition(t_rows, i_rows) ==
    [r \in 1..(IF Len(t_rows) > Len(i_rows) THEN Len(t_rows) ELSE Len(i_rows)) |->
        [datetime |-> IF r <= Len(t_rows) THEN t_rows[r].datetime ELSE NaT,
         demand |-> IF r <= Len(t_rows) /\ r <= Len(i_rows)
                    THEN AddValues(t_rows[r].demand, i_rows[r].demand)
                    ELSE NaNValue]]

\* The combined frame of one transport file, as saved: timepoint_id is the row
\* position, timestamp the row's datetime
CombinedCsv(rows) ==
    [exists |-> TRUE,
     columns |-> {"timepoint_id", "timeseries", "timestamp", "h2_demand_kg"},
     rows |-> rows]

\* One pass of the loop "for file in transport_files"
CProfile(z) ==
    /\ c_pc = "profiles"
    /\ z \in c_todo
    /\ LET transport_df == c_transport_profiles[z]
           has_industry == c_industry_profiles[z].exists
           industry_df == c_industry_profiles[z]
           missing == \/ "total_h2_demand_kg" \notin transport_df.columns
                      \/ (has_industry /\ "total_h2_demand_kg" \notin industry_df.columns)
       IN IF missing
          THEN /\ c_pc' = "raised"
               /\ c_raised' = "KeyError"
               /\ UNCHANGED <<c_todo, c_combined_profiles>>
          ELSE /\ c_combined_profiles' =
                     [c_combined_profiles EXCEPT ![z] =
                         CombinedCsv(IF has_industry
                                     THEN AddByPosition(transport_df.rows, industry_df.rows)
                                     ELSE transport_df.rows)]
               /\ c_todo' = c_todo \ {z}
               /\ UNCHANGED <<c_pc, c_raised>>
    /\ UNCHANGED <<CInputs, c_combined_grids, dvars, pvars, ivars, tvars, avars, evars, nvars,
                 qvars, svars, rvars>>

\* combine_profiles returns; combine_demand_grids empties the combined grid folder
\* and globs the industry grids
CListGrids ==
    /\ c_pc = "profiles"
    /\ c_todo = {}
    /\ c_pc' = "grids"
    /\ c_todo' = {y \in ModelYears : c_industry_grids[y].exists}
    /\ c_combined_grids' = [y \in ModelYears |-> NoGrid]
    /\ UNCHANGED <<CInputs, c_raised, c_combined_profiles, dvars, pvars, ivars, tvars, avars, evars, nvars,
                 qvars, svars, rvars>>

\* industry_grid.merge(transport_grid[['geometry', col]], on='geometry', how='outer')
\* followed by the sum of the two demand columns
OuterMergeSum(industry_grid, transport_grid) ==
    [exists |-> TRUE,
     columns |-> {"geometry", "total_h2_demand_kg_industry", "total_h2_demand_kg_transport",
                  "total_h2_demand_kg"},
     cells |-> [g \in Cells |-> AddValues(industry_grid.cells[g], transport_grid.cells[g])],
     has |-> industry_grid.has \cup transport_grid.has]

\* One pass of the loop over the industry grids
CGrid(year) ==
    /\ c_pc = "grids"
    /\ year \in c_todo
    /\ LET industry_grid == c_industry_grids[year]
           transport_grid == c_transport_grids[year]
       IN IF ~transport_grid.exists
          THEN /\ c_pc' = "raised"
               /\ c_raised' = "DataSourceError"
               /\ UNCHANGED <<c_todo, c_combined_grids>>
          ELSE IF "total_h2_demand_kg" \notin transport_grid.columns
          THEN /\ c_pc' = "raised"
               /\ c_raised' = "KeyError"
               /\ UNCHANGED <<c_todo, c_combined_grids>>
          ELSE /\ c_combined_grids' =
                     [c_combined_grids EXCEPT ![year] =
                         OuterMergeSum(industry_grid, transport_grid)]
               /\ c_todo' = c_todo \ {year}
               /\ UNCHANGED <<c_pc, c_raised>>
    /\ UNCHANGED <<CInputs, c_combined_profiles, dvars, pvars, ivars, tvars, avars, evars, nvars,
                 qvars, svars, rvars>>

CDone ==
    /\ c_pc = "grids"
    /\ c_todo = {}
    /\ c_pc' = "done"
    /\ UNCHANGED <<CInputs, c_raised, c_todo, c_combined_profiles, c_combined_grids,
                   dvars, pvars, ivars, tvars, avars, evars, nvars, qvars,
                 svars, rvars>>

CNext ==
    \/ CListProfiles
    \/ \E z \in Zones : CProfile(z)
    \/ CListGrids
    \/ \E year \in ModelYears : CGrid(year)
    \/ CDone

CEnded == c_pc \in {"done", "raised"}

\* C7: every load zone with an hourly profile in at least one sector has a combined
\* profile; for a zone of one sector only, the combined rows are that sector's rows.
C7_OuterJoinProfiles ==
    CEnded =>
        \A z \in Zones :
            /\ (c_transport_profiles[z].exists \/ c_industry_profiles[z].exists)
                  => c_combined_profiles[z].exists
            /\ (c_transport_profiles[z].exists /\ ~c_industry_profiles[z].exists)
                  => c_combined_profiles[z].rows = c_transport_profiles[z].rows
            /\ (c_industry_profiles[z].exists /\ ~c_transport_profiles[z].exists)
                  => c_combined_profiles[z].rows = c_industry_profiles[z].rows

\* C8: a grid cell present in only one sector's grid of a year makes the combination
\* fail; no combined grid is written in which such a cell has a missing total.
C8_GridMismatchFails ==
    CEnded =>
        \A year \in ModelYears :
            (c_industry_grids[year].exists /\ c_transport_grids[year].exists
                /\ c_industry_grids[year].has # c_transport_grids[year].has)
                => /\ c_pc = "raised"
                   /\ ~c_combined_grids[year].exists

\* C27: in the combined profile written for a load zone that has a transport and an
\* industry profile, every timestamp the two profiles share has a row, and its
\* value is the transport value plus the industry value of that timestamp, whatever
\* years the two profiles cover.
C27_SumAtSameTimestamp ==
    CEnded =>
        \A z \in Zones :
            (c_transport_profiles[z].exists /\ c_industry_profiles[z].exists
                /\ c_combined_profiles[z].exists)
                => \A t \in 1..Len(c_transport_profiles[z].rows),
                      i \in 1..Len(c_industry_profiles[z].rows) :
                      LET transport_row == c_transport_profiles[z].rows[t]
                          industry_row == c_industry_profiles[z].rows[i]
                      IN transport_row.datetime = industry_row.datetime
                            => \E r \in 1..Len(c_combined_profiles[z].rows) :
                                  /\ c_combined_profiles[z].rows[r].datetime
                                        = transport_row.datetime
                                  /\ c_combined_profiles[z].rows[r].demand
                                        = transport_row.demand + industry_row.demand

----------------------------------------------------------------------------
(* A call of disaggregate_annual_to_hourly on its own *)

DCall ==
    /\ d_pc = "call"
    /\ d_out' = disaggregate_annual_to_hourly(d_in.annual_total, WeekShape(d_in.hourly),
                                              YearShape(d_in.weekly), d_in.year)
    /\ d_pc' = IF d_out'.raised = "none" THEN "returned" ELSE "raised"
    /\ UNCHANGED <<d_in, pvars, cvars, ivars, tvars, avars, evars, nvars, qvars, svars, rvars>>

DHours == 1..HoursInYear(d_in.year)
DFinite == d_out.value.den # 0
DSumIsAnnual == SeqSum(d_out.value.nums) = d_in.annual_total * d_out.value.den

\* C1: for every year, annual total and pair of non-negative shapes that are not
\* all zero, the hourly values the call returns sum to annual_total.
C1_SumIsAnnual ==
    (d_pc = "returned" /\ ~AllZero(WeekShape(d_in.hourly)) /\ ~AllZero(YearShape(d_in.weekly)))
        => (DFinite /\ DSumIsAnnual)

\* C2: with a weekly shape whose only non-zero weight is index 0 and a seasonal
\* shape that is positive everywhere, the hours with a positive value are exactly
\* the Sundays 00:00 of the year, whatever weekday the year starts on.
C2_SundayMidnight ==
    (d_pc = "returned" /\ d_in.hourly = "sunday0" /\ d_in.annual_total > 0
        /\ AllPositive(YearShape(d_in.weekly)))
        => /\ DFinite
           /\ \A h \in DHours :
                (d_out.value.nums[h] > 0) <=>
                    (DayOfWeek(d_in.year, h) = Sunday /\ ClockHour(h) = 0)
           /\ \A h \in DHours : d_out.value.nums[h] >= 0

C2_Witness ==
    /\ d_pc = "returned" /\ d_in.hourly = "sunday0" /\ d_in.annual_total > 0
    /\ AllPositive(YearShape(d_in.weekly))
    /\ Jan1Weekday(d_in.year) = 2
    /\ \E h \in DHours : d_out.value.nums[h] > 0

\* C4: uniform 168-entry weekly shape, uniform 12-entry seasonal shape, 365-day
\* year: the call returns 8760 values, all equal to A / 8760, summing to A.
C4_UniformTwelve ==
    (d_pc # "call" /\ d_in.hourly = "uniform" /\ d_in.weekly = "full12"
        /\ DaysInYear(d_in.year) = 365)
        => /\ d_pc = "returned"
           /\ ArrLen(d_out.value) = 8760
           /\ DFinite
           /\ \A h \in DHours : d_out.value.nums[h] * 8760 = d_in.annual_total * d_out.value.den
           /\ DSumIsAnnual

\* C5: with a 12-entry seasonal shape the call completes, and every hour is
\* weighted by the entry of its own calendar month.
C5_MonthlyShape ==
    (d_pc # "call" /\ ArrLen(YearShape(d_in.weekly)) = 12)
        => /\ d_pc = "returned"
           /\ ArrLen(d_out.value) = HoursInYear(d_in.year)
           /\ LET w(h) == WeekShape(d_in.hourly).nums[HourOfWeek(d_in.year)[h] + 1]
                          * YearShape(d_in.weekly).nums[MonthIndex(d_in.year, h) + 1]
              IN \A h \in DHours : d_out.value.nums[h] * w(1) = d_out.value.nums[1] * w(h)

\* C6: a weekly or seasonal shape whose weights are all zero makes the call abort;
\* it never returns an hourly series.
C6_ZeroShapeAborts ==
    (d_pc # "call" /\ (AllZero(WeekShape(d_in.hourly)) \/ AllZero(YearShape(d_in.weekly))))
        => d_pc = "raised"
----------------------------------------------------------------------------
(* industry/industry_h2.py: scalar floats <<p, q>> = p/q *)

FAdd(x, y) == Rat(x[1] * y[2] + y[1] * x[2], x[2] * y[2])

FSub(x, y) == Rat(x[1] * y[2] - y[1] * x[2], x[2] * y[2])

FMul(x, y) == Rat(x[1] * y[1], x[2] * y[2])

\* x / y for x >= 0; a zero divisor gives inf or NaN as numpy does, without raising
FDiv(x, y) ==
    IF y[1] = 0 THEN Rat(x[1], 0)
    ELSE IF y[1] < 0 THEN Rat(-(x[1] * y[2]), -(y[1] * x[2]))
    ELSE Rat(x[1] * y[2], y[1] * x[2])

FLess(x, y) == x[1] * y[2] < y[1] * x[2]

\* int(x): truncation toward zero
Trunc(x) == IF x[1] >= 0 THEN x[1] \div x[2] ELSE -((-x[1]) \div x[2])

RECURSIVE FSumRange(_, _, _)
FSumRange(s, lo, hi) == IF lo > hi THEN <<0, 1>> ELSE FAdd(s[lo], FSumRange(s, lo + 1, hi))

\* Series.sum() of a column of floats
FSum(s) == FSumRange(s, 1, Len(s))

\* Series.mean()
FMean(s) == FDiv(FSum(s), <<Len(s), 1>>)

----------------------------------------------------------------------------
(* industry/industry_h2.py: inputs of the reconciliation (steps 2 and 3) *)

\* Two of the six sectors of sector_by_naics, in the dictionary's order
sector_by_naics ==
    <<[sector |-> "Iron_and_Steel", codes |-> <<"331110", "3312">>],
      [sector |-> "Cement", codes |-> <<"327310">>]>>

SectorNames == {sector_by_naics[k].sector : k \in 1..Len(sector_by_naics)}

SectorCodes(sector) ==
    LET e == CHOOSE k \in 1..Len(sector_by_naics) : sector_by_naics[k].sector = sector
    IN SeqRange(sector_by_naics[e].codes)

all_naics == UNION {SectorCodes(s) : s \in SectorNames}

\* get_sector on a code of the table; a missing code (NaN) belongs to no sector
get_sector(naics) ==
    IF naics \in all_naics
    THEN CHOOSE s \in SectorNames : naics \in SectorCodes(s)
    ELSE "None"

MaxFacilities == 2
MaxMissing == 1
MaxExtra == 2

\* fuel_demand_mmBtu of the k-th GHGRP facility of a sector
FacilityDemand(sector, k) ==
    IF sector = "Iron_and_Steel"
    THEN (IF k = 1 THEN <<7, 2>> ELSE <<2 * k + 1, 1>>)
    ELSE <<4 * k, 1>>

\* proj_fuel_demand_mmBtu of a facility over its fuel_demand_mmBtu: growth, the
\* percentage decarbonised and the high-heat share of the sector
ProjectionFactor(sector) == IF sector = "Iron_and_Steel" THEN <<1, 2>> ELSE <<1, 4>>

\* 'Fossil Fuels Total' * 1e6 of a NAICS code: a float, whole or not
MecsTotals == {<<0, 1>>, <<7, 2>>, <<15, 4>>, <<12, 1>>}

\* Where the facilities of the input files lie: those of the WECC within the load
\* zone of their sector, the others east of all load zones
FacilityLongitude(sector, inWECC) ==
    IF ~inWECC THEN 2 * MaxZones + 1 ELSE IF sector = "Iron_and_Steel" THEN 1 ELSE 3

\* One record of results_by_facility as calc_epa_ghgrp_fuel_consumption builds it;
\* a facility outside the West Census Region lies outside the WECC too;
\* `file` is the input file the record was made from.
GhgrpRecord(sector, naics, k, west) ==
    [Facility_Id |-> k, NAICS_Code |-> naics, Sector |-> get_sector(naics),
     Longitude |-> FacilityLongitude(sector, west),
     fuel_demand_mmBtu |-> FacilityDemand(sector, k),
     proj_fuel_demand_mmBtu |-> FMul(FacilityDemand(sector, k), ProjectionFactor(sector)),
     inWestCensus |-> west, inWECC |-> west,
     file |-> [folder |-> "units_and_fuel", sector |-> sector]]

\* The facilities of one sector file: all carry the NAICS code of the file's first
\* row; the last of several may lie outside the West Census Region
GhgrpRecords(sector, naics, n, all_west) ==
    [k \in 1..n |-> GhgrpRecord(sector, naics, k, all_west \/ k = 1)]

----------------------------------------------------------------------------
(* industry/industry_h2.py: calc_discrepancies *)

ColumnOf(df, col) == [k \in 1..Len(df) |-> df[k][col]]

\* naics_discrepancy_df: the rows of discrepancy_list, by NAICS code
naics_discrepancy_df(breakdown) ==
    LET west_breakdown_by_fuel_df == SelectSeq(breakdown, LAMBDA r : r.inWestCensus)
        ghgrp_fuel_total_mmbtu(naics) ==
            FSum(ColumnOf(SelectSeq(west_breakdown_by_fuel_df,
                                    LAMBDA r : r.NAICS_Code = naics),
                          "fuel_demand_mmBtu"))
    IN [naics \in all_naics |->
          [mecs_mmbtu |-> mecs_data[naics],
           ghgrp_mmbtu |-> ghgrp_fuel_total_mmbtu(naics),
           discrepancy_mmbtu |-> FSub(<<Trunc(mecs_data[naics]), 1>>,
                                      ghgrp_fuel_total_mmbtu(naics)),
           mecs_to_ghgrp_ratio |->
               IF ghgrp_fuel_total_mmbtu(naics) # <<0, 1>>
               THEN FDiv(mecs_data[naics], ghgrp_fuel_total_mmbtu(naics))
               ELSE <<1, 0>>]]

calc_discrepancies(breakdown) ==
    LET west_breakdown_by_fuel_df == SelectSeq(breakdown, LAMBDA r : r.inWestCensus)
        \* get_group(naics) and the sum of its fuel demand, 0 when there is no group
        ghgrp_fuel_total_mmbtu(naics) ==
            FSum(ColumnOf(SelectSeq(west_breakdown_by_fuel_df,
                                    LAMBDA r : r.NAICS_Code = naics),
                          "fuel_demand_mmBtu"))
        naics_discrepancy(naics) ==
            [mecs_mmbtu |-> mecs_data[naics],
             ghgrp_mmbtu |-> ghgrp_fuel_total_mmbtu(naics),
             discrepancy_mmbtu |-> FSub(<<Trunc(mecs_data[naics]), 1>>,
                                        ghgrp_fuel_total_mmbtu(naics))]
        \* groupby('Sector').agg(... 'sum')
        SectorSum(sector, col) ==
            LET codes == sector_by_naics[CHOOSE k \in 1..Len(sector_by_naics) :
                                            sector_by_naics[k].sector = sector].codes
            IN FSum([k \in 1..Len(codes) |-> naics_discrepancy(codes[k])[col]])
    IN [sector \in SectorNames |->
          [discrepancy_mmbtu |-> SectorSum(sector, "discrepancy_mmbtu"),
           mecs_mmbtu |-> SectorSum(sector, "mecs_mmbtu"),
           ghgrp_mmbtu |-> SectorSum(sector, "ghgrp_mmbtu"),
           mecs_to_ghgrp_ratio |-> FDiv(SectorSum(sector, "mecs_mmbtu"),
                                        SectorSum(sector, "ghgrp_mmbtu"))]]

----------------------------------------------------------------------------
(* industry/industry_h2.py: model_one_year, steps 2 and 3 *)

\* cached_project_sector_consumption(sector, x, year) * high_temp_decarb_pct / 100
\* * get_high_heat_emissions_share(sector), over x
SectorProjectionFactor(sector) == IF sector = "Iron_and_Steel" THEN <<1, 3>> ELSE <<1, 5>>

\* A row of a missing-data file after the column selection of step 2: the frame has
\* no 'Sector' column and its NAICS column keeps the name 'Primary NAICS Code', so
\* both are NaN in results_by_facility_df
MissingRecord(sector, k, fuel_demand, proj_fuel_demand) ==
    [Facility_Id |-> 100 + k, NAICS_Code |-> "NaN", Sector |-> "NaN",
     Longitude |-> FacilityLongitude(sector, TRUE),
     fuel_demand_mmBtu |-> fuel_demand,
     proj_fuel_demand_mmBtu |-> proj_fuel_demand,
     inWestCensus |-> TRUE, inWECC |-> TRUE,
     file |-> [folder |-> "facilities_missing_combustion_data", sector |-> sector]]

\* A row of an extra-facility file after the column selection of step 3: no
\* 'Sector' and no 'Facility Id' column
ExtraRecord(sector, fuel_demand) ==
    [Facility_Id |-> NaNValue, NAICS_Code |-> sector_by_naics[
                          CHOOSE k \in 1..Len(sector_by_naics) :
                              sector_by_naics[k].sector = sector].codes[1],
     Sector |-> "NaN",
     Longitude |-> FacilityLongitude(sector, TRUE),
     fuel_demand_mmBtu |-> fuel_demand,
     proj_fuel_demand_mmBtu |-> FMul(fuel_demand, SectorProjectionFactor(sector)),
     inWestCensus |-> TRUE, inWECC |-> TRUE,
     file |-> [folder |-> "extra_epa_frs_facilities_west", sector |-> sector]]

IInputs == <<breakdown_by_fuel_df, mecs_data, missing_facilities, extra_facilities>>

\* What steps 4 to 6 assign
IOutputs == <<existing_h2_plants_df, filtered_df, aggregated_by_lz, result_grid>>

\* One pass of the loop of step 2 over the missing-data files.  The sector means
\* are those of the frame before the loop: the rows the loop appends carry no
\* Sector, and groupby leaves them out.
IMissing(sector) ==
    /\ i_pc = "step2"
    /\ sector \in i_todo
    /\ LET of_sector == SelectSeq(results_by_facility_df, LAMBDA r : r.Sector = sector)
           average_facility_demand == FMean(ColumnOf(of_sector, "fuel_demand_mmBtu"))
           average_facility_proj_demand == FMean(ColumnOf(of_sector, "proj_fuel_demand_mmBtu"))
       IN IF missing_facilities[sector] = 0
          THEN /\ i_todo' = i_todo \ {sector}
               /\ UNCHANGED <<results_by_facility_df, i_pc, i_raised>>
          ELSE IF Len(of_sector) = 0
          THEN /\ i_pc' = "raised"
               /\ i_raised' = "KeyError"
               /\ UNCHANGED <<results_by_facility_df, i_todo>>
          ELSE /\ results_by_facility_df' = results_by_facility_df \o
                     [k \in 1..missing_facilities[sector] |->
                         MissingRecord(sector, k, average_facility_demand,
                                       average_facility_proj_demand)]
               /\ i_todo' = i_todo \ {sector}
               /\ UNCHANGED <<i_pc, i_raised>>
    /\ UNCHANGED <<IInputs, IOutputs, discrepancies_by_sector, logs, i_sector, dvars, pvars, cvars, tvars, avars, evars, nvars,
                 qvars, svars, rvars>>

\* discrepancies_by_sector = calc_discrepancies(breakdown_by_fuel_df)
ICalcDiscrepancies ==
    /\ i_pc = "step2"
    /\ i_todo = {}
    /\ discrepancies_by_sector' = calc_discrepancies(breakdown_by_fuel_df)
    /\ logs' = [file \in DOMAIN logs \cup {"discrepancies_by_naics.csv",
                                           "sector_discrepancies.csv"} |->
                   IF file = "discrepancies_by_naics.csv"
                   THEN naics_discrepancy_df(breakdown_by_fuel_df)
                   ELSE IF file = "sector_discrepancies.csv"
                   THEN calc_discrepancies(breakdown_by_fuel_df)
                   ELSE logs[file]]
    /\ i_pc' = "step3"
    /\ i_sector' = 1
    /\ UNCHANGED <<IInputs, IOutputs, results_by_facility_df, i_raised, i_todo, dvars, pvars, cvars, tvars, avars, evars, nvars,
                 qvars, svars, rvars>>

\* .loc[df['Sector'] == sector, col] *= ratio, for both demand columns
ScaleSector(df, sector, ratio) ==
    [k \in 1..Len(df) |->
        IF df[k].Sector = sector
        THEN [df[k] EXCEPT !.fuel_demand_mmBtu = FMul(@, ratio),
                           !.proj_fuel_demand_mmBtu = FMul(@, ratio)]
        ELSE df[k]]

\* One pass of the loop of step 3 over sector_by_naics.keys()
ISector ==
    /\ i_pc = "step3"
    /\ i_sector <= Len(sector_by_naics)
    /\ LET sector == sector_by_naics[i_sector].sector
           sector_row == discrepancies_by_sector[sector]
           discrepancy_mmbtu == sector_row.discrepancy_mmbtu
       IN results_by_facility_df' =
             IF FLess(discrepancy_mmbtu, <<0, 1>>)
             THEN ScaleSector(results_by_facility_df, sector, sector_row.mecs_to_ghgrp_ratio)
             ELSE IF FLess(<<0, 1>>, discrepancy_mmbtu)
             THEN results_by_facility_df \o
                     [k \in 1..extra_facilities[sector] |->
                         ExtraRecord(sector, FDiv(discrepancy_mmbtu,
                                                  <<extra_facilities[sector], 1>>))]
             ELSE results_by_facility_df
    /\ i_sector' = i_sector + 1
    /\ UNCHANGED <<IInputs, IOutputs, discrepancies_by_sector, logs, i_pc, i_raised, i_todo,
                   dvars, pvars, cvars, tvars, avars, evars, nvars, qvars,
                 svars, rvars>>

\* The loop of step 3 has visited every sector
IEndStep3 ==
    /\ i_pc = "step3"
    /\ i_sector > Len(sector_by_naics)
    /\ i_pc' = "step4"
    /\ UNCHANGED <<IInputs, IOutputs, results_by_facility_df, discrepancies_by_sector, logs,
                   i_raised, i_todo, i_sector, dvars, pvars, cvars, tvars, avars, evars, nvars,
                 qvars, svars, rvars>>

----------------------------------------------------------------------------
(* Reconciliation of a sector: what step 3 is to do *)

\* The top-down (MECS) total of a sector: the sum over its NAICS codes
TopDown(sector) ==
    LET codes == sector_by_naics[CHOOSE k \in 1..Len(sector_by_naics) :
                                    sector_by_naics[k].sector = sector].codes
    IN FSum([k \in 1..Len(codes) |-> mecs_data[codes[k]]])

\* The bottom-up (GHGRP) total of a sector: the fuel demand of its rows of the
\* breakdown that lie in the West Census Region
BottomUp(sector) ==
    FSum(ColumnOf(SelectSeq(breakdown_by_fuel_df,
                            LAMBDA r : r.inWestCensus /\ r.NAICS_Code \in SectorCodes(sector)),
                  "fuel_demand_mmBtu"))

\* The sector the next pass of the loop of step 3 handles
CurrentSector == sector_by_naics[i_sector].sector

InStep3 == i_pc = "step3" /\ i_sector <= Len(sector_by_naics)

\* C9: when the pass of step 3 handles a sector whose bottom-up total exceeds its
\* top-down total, every record of that sector in the frame has its fuel demand and
\* its projected fuel demand multiplied by top-down / bottom-up, the records of the
\* other sectors are unchanged, and no record is added.
C9_OverestimateScaling ==
    [][(InStep3 /\ FLess(TopDown(CurrentSector), BottomUp(CurrentSector)))
          => LET ratio == FDiv(TopDown(CurrentSector), BottomUp(CurrentSector))
                 before == results_by_facility_df
                 after == results_by_facility_df'
             IN /\ Len(after) = Len(before)
                /\ \A k \in 1..Len(before) :
                      IF before[k].file.sector = CurrentSector
                      THEN /\ after[k].fuel_demand_mmBtu
                                 = FMul(before[k].fuel_demand_mmBtu, ratio)
                           /\ after[k].proj_fuel_demand_mmBtu
                                 = FMul(before[k].proj_fuel_demand_mmBtu, ratio)
                      ELSE after[k] = before[k]]_vars

\* C10: when the pass of step 3 handles a sector whose bottom-up total is below its
\* top-down total and whose extra-facility list is not empty, it appends one record
\* per facility of that list, all with the same fuel demand, and these fuel demands
\* sum to top-down minus bottom-up.
C10_UnderestimateInjection ==
    [][(InStep3 /\ FLess(BottomUp(CurrentSector), TopDown(CurrentSector))
            /\ extra_facilities[CurrentSector] > 0)
          => LET before == results_by_facility_df
                 after == results_by_facility_df'
                 injected == SubSeq(after, Len(before) + 1, Len(after))
             IN /\ SubSeq(after, 1, Len(before)) = before
                /\ Len(injected) = extra_facilities[CurrentSector]
                /\ \A k \in 1..Len(injected) :
                      /\ injected[k].file = [folder |-> "extra_epa_frs_facilities_west",
                                             sector |-> CurrentSector]
                      /\ injected[k].fuel_demand_mmBtu = injected[1].fuel_demand_mmBtu
                /\ FSum(ColumnOf(injected, "fuel_demand_mmBtu"))
                      = FSub(TopDown(CurrentSector), BottomUp(CurrentSector))]_vars

\* Every record of the frame carries finite demands
AllFinite(df) ==
    \A k \in 1..Len(df) :
        df[k].fuel_demand_mmBtu[2] # 0 /\ df[k].proj_fuel_demand_mmBtu[2] # 0

\* C11: a pass of step 3 over a sector whose bottom-up total equals its top-down
\* total, or whose bottom-up total is 0, changes no record of the frame and adds
\* none, and it leaves every demand finite (the infinite or undefined ratio is
\* multiplied into no record).
C11_NoCorrection ==
    [][(InStep3 /\ (BottomUp(CurrentSector) = TopDown(CurrentSector)
                      \/ BottomUp(CurrentSector) = <<0, 1>>))
          => /\ results_by_facility_df' = results_by_facility_df
             /\ AllFinite(results_by_facility_df) => AllFinite(results_by_facility_df')]_vars

\* The files of logs/ that carry a row for the sector whose discrepancy is the value
LoggedDiscrepancy(sector, value) ==
    {file \in DOMAIN logs : /\ sector \in DOMAIN logs[file]
                            /\ logs[file][sector].discrepancy_mmbtu = value}

\* C12: once step 3 of a model year has ended, the logs hold, for every sector, the
\* discrepancy before the correction and, in another table, the discrepancy after
\* it, which is the discrepancy of the corrected frame.
C12_AuditBeforeAndAfter ==
    i_pc = "step4"
       => \A sector \in SectorNames :
             \E before \in LoggedDiscrepancy(sector,
                                discrepancies_by_sector[sector].discrepancy_mmbtu),
                after \in LoggedDiscrepancy(sector,
                                calc_discrepancies(results_by_facility_df)[sector]
                                    .discrepancy_mmbtu) :
                before # after

\* C29: whenever the pass of step 3 takes the overestimate branch for a sector (its
\* discrepancy is below zero), the ratio it multiplies into the sector's records is
\* at least 0 and below 1, and no record's fuel demand or projected fuel demand is
\* larger after the pass than before it.
C29_ScalingRatioBelowOne ==
    [][(InStep3 /\ FLess(discrepancies_by_sector[CurrentSector].discrepancy_mmbtu, <<0, 1>>))
          => LET ratio == discrepancies_by_sector[CurrentSector].mecs_to_ghgrp_ratio
                 before == results_by_facility_df
                 after == results_by_facility_df'
             IN /\ ~FLess(ratio, <<0, 1>>)
                /\ FLess(ratio, <<1, 1>>)
                /\ Len(after) = Len(before)
                /\ \A k \in 1..Len(before) :
                      /\ ~FLess(before[k].fuel_demand_mmBtu, after[k].fuel_demand_mmBtu)
                      /\ ~FLess(before[k].proj_fuel_demand_mmBtu,
                                after[k].proj_fuel_demand_mmBtu)]_vars

----------------------------------------------------------------------------
(* transport/transport_h2.py: disaggregate_by_load_zone and                  *)
(* build_hydrogen_demand_grid, as one year's pass of model_transport_demand  *)
(* calls them                                                                *)

MaxRows == 2
MaxVmt == 1
MaxVmtTotal == 2
MaxStateDemand == 1

\* Two of the states of VMT_data/, by FIPS code (Arizona, California)
StateFips == {4, 6}

\* The load zones the rows of a state's VMT file lie in
RowZones(fips) ==
    IF fips = 4 THEN <<"AZ_APS", "CA_IID", "AZ_NW">> ELSE <<"CA_IID", "MEX_BAJA", "CA_SCE">>

\* str.contains('CAN|MEX', case=False, na=False) on the load zones of the files
ContainsCanOrMex(load_zone) == load_zone \in {"MEX_BAJA", "CAN_BC", "CAN_ALB"}

\* float + float, non-negative operands: inf and NaN as numpy adds them
FloatAdd(x, y) ==
    IF x[2] # 0 /\ y[2] # 0 THEN FAdd(x, y)
    ELSE IF x = NaN \/ y = NaN THEN NaN
    ELSE <<1, 0>>

RECURSIVE SkipNaSumRange(_, _, _)
SkipNaSumRange(s, lo, hi) ==
    IF lo > hi THEN <<0, 1>>
    ELSE IF s[lo] = NaN THEN SkipNaSumRange(s, lo + 1, hi)
    ELSE FloatAdd(s[lo], SkipNaSumRange(s, lo + 1, hi))

\* Series.sum(): skipna is True, a NaN counts as 0
SkipNaSum(s) == SkipNaSumRange(s, 1, Len(s))

\* pd.read_csv of a state's VMT file: the load zone, the HD VMT and the LD VMT of
\* each row (columns 0, 2 and 3)
VmtFile(fips, ld_vmt) ==
    [k \in 1..Len(ld_vmt) |->
        [load_zone |-> RowZones(fips)[((k - 1) % Len(RowZones(fips))) + 1],
         HD_VMT |-> ld_vmt[Len(ld_vmt) + 1 - k],
         LD_VMT |-> ld_vmt[k]]]

VmtFiles(fips) ==
    UNION {{VmtFile(fips, ld_vmt) : ld_vmt \in [1..n -> 0..MaxVmt]} : n \in 1..MaxRows}

\* The three demand columns the loop body adds to state_df
WithDemand(state_df, state_ld_vmt, state_hd_vmt, state_ld_h2_demand, state_hd_h2_demand) ==
    [k \in 1..Len(state_df) |->
        LET LD_h2_demand == FMul(FDiv(<<state_df[k].LD_VMT, 1>>, <<state_ld_vmt, 1>>),
                                 state_ld_h2_demand)
            HD_h2_demand == FMul(FDiv(<<state_df[k].HD_VMT, 1>>, <<state_hd_vmt, 1>>),
                                 state_hd_h2_demand)
        IN [load_zone |-> state_df[k].load_zone,
            HD_VMT |-> state_df[k].HD_VMT,
            LD_VMT |-> state_df[k].LD_VMT,
            LD_h2_demand |-> LD_h2_demand,
            HD_h2_demand |-> HD_h2_demand,
            total_h2_demand |-> FloatAdd(LD_h2_demand, HD_h2_demand)]]

\* One pass of "for _, row in state_df.iterrows()" on the dictionary
AddRow(summary, row) ==
    IF \E i \in 1..Len(summary) : summary[i].load_zone = row.load_zone
    THEN [i \in 1..Len(summary) |->
             IF summary[i].load_zone = row.load_zone
             THEN [load_zone |-> row.load_zone,
                   LD_h2_demand |-> FloatAdd(summary[i].LD_h2_demand, row.LD_h2_demand),
                   HD_h2_demand |-> FloatAdd(summary[i].HD_h2_demand, row.HD_h2_demand),
                   total_h2_demand |-> FloatAdd(summary[i].total_h2_demand,
                                                row.total_h2_demand)]
             ELSE summary[i]]
    ELSE Append(summary, [load_zone |-> row.load_zone,
                          LD_h2_demand |-> FloatAdd(<<0, 1>>, row.LD_h2_demand),
                          HD_h2_demand |-> FloatAdd(<<0, 1>>, row.HD_h2_demand),
                          total_h2_demand |-> FloatAdd(<<0, 1>>, row.total_h2_demand)])

RECURSIVE AddRows(_, _, _)
AddRows(summary, state_df, k) ==
    IF k > Len(state_df) THEN summary
    ELSE AddRows(AddRow(summary, state_df[k]), state_df, k + 1)

\* One pass of the loop over os.listdir(vmt_folder): the state's file is read, its
\* demand columns computed, the summary saved and the dictionary updated
TState(fips) ==
    /\ t_pc = "loop"
    /\ fips \in t_todo
    /\ \E file \in VmtFiles(fips) :
          LET state_df == WithDemand(file, state_vmts_totals_dict[fips][1],
                                     state_vmts_totals_dict[fips][2],
                                     state_h2_demand[fips][1], state_h2_demand[fips][2])
          IN /\ t_state_df' = [t_state_df EXCEPT ![fips] = state_df]
             /\ load_zone_summary' = AddRows(load_zone_summary, state_df, 1)
    /\ t_todo' = t_todo \ {fips}
    /\ UNCHANGED <<state_h2_demand, state_vmts_totals_dict, load_zone_summary_df,
                   wecc_vmt_grid, t_pc, dvars, pvars, cvars, ivars, avars, evars, nvars,
                 qvars, svars, rvars>>

\* After the loop: the dictionary becomes a frame, the load zones that contain
\* CAN or MEX are removed, and the frame is returned
TReturn ==
    /\ t_pc = "loop"
    /\ t_todo = {}
    /\ load_zone_summary_df' =
          SelectSeq(load_zone_summary, LAMBDA row : ~ContainsCanOrMex(row.load_zone))
    /\ t_pc' = "returned"
    /\ UNCHANGED <<state_h2_demand, state_vmts_totals_dict, t_todo, t_state_df,
                   load_zone_summary, wecc_vmt_grid, dvars, pvars, cvars, ivars, avars, evars, nvars,
                 qvars, svars, rvars>>

\* vmt_grid_wecc.gpkg: the LD VMT and the HD VMT of each 5x5 km cell
VmtGrid(ld_vmt) ==
    [k \in 1..Len(ld_vmt) |-> [LD_VMT |-> ld_vmt[k], HD_VMT |-> ld_vmt[Len(ld_vmt) + 1 - k]]]

VmtGrids == UNION {{VmtGrid(ld_vmt) : ld_vmt \in [1..n -> 0..MaxVmt]} : n \in 1..MaxCells}

build_hydrogen_demand_grid(grid, wecc_ld_h2_demand, wecc_hd_h2_demand) ==
    LET wecc_ld_vmt_total == SkipNaSum([k \in 1..Len(grid) |-> <<grid[k].LD_VMT, 1>>])
        wecc_hd_vmt_total == SkipNaSum([k \in 1..Len(grid) |-> <<grid[k].HD_VMT, 1>>])
    IN [k \in 1..Len(grid) |->
          LET ld_h2_demand == FDiv(FMul(wecc_ld_h2_demand, <<grid[k].LD_VMT, 1>>),
                                   wecc_ld_vmt_total)
              hd_h2_demand == FDiv(FMul(wecc_hd_h2_demand, <<grid[k].HD_VMT, 1>>),
                                   wecc_hd_vmt_total)
          IN [LD_VMT |-> grid[k].LD_VMT, HD_VMT |-> grid[k].HD_VMT,
              ld_h2_demand |-> ld_h2_demand,
              hd_h2_demand |-> hd_h2_demand,
              total_h2_demand |-> FloatAdd(ld_h2_demand, hd_h2_demand)]]

\* model_transport_demand sums the returned LD and HD columns and builds the grid
TGrid ==
    /\ t_pc = "returned"
    /\ \E grid \in VmtGrids :
          wecc_vmt_grid' =
              build_hydrogen_demand_grid(
                  grid,
                  SkipNaSum(ColumnOf(load_zone_summary_df, "LD_h2_demand")),
                  SkipNaSum(ColumnOf(load_zone_summary_df, "HD_h2_demand")))
    /\ t_pc' = "grid"
    /\ UNCHANGED <<state_h2_demand, state_vmts_totals_dict, t_todo, t_state_df,
                   load_zone_summary, load_zone_summary_df, dvars, pvars, cvars, ivars, avars, evars, nvars,
                 qvars, svars, rvars>>

TNext ==
    \/ \E fips \in StateFips : TState(fips)
    \/ TReturn
    \/ TGrid

\* float + float + ... without skipping: the sum as the reals have it, NaN if any
RECURSIVE PlainSumRange(_, _, _)
PlainSumRange(s, lo, hi) ==
    IF lo > hi THEN <<0, 1>> ELSE FloatAdd(s[lo], PlainSumRange(s, lo + 1, hi))

PlainSum(s) == PlainSumRange(s, 1, Len(s))

\* The states whose file the loop has visited
Processed == {fips \in StateFips : fips \notin t_todo /\ t_pc # "idle"}

\* C13: in every state the loop has visited, each row of the state's table carries
\* LD demand = LD VMT of the row / sum of the LD VMT of the table x the state's LD
\* demand (and the same for HD), and the row demands of the table sum to the
\* state's LD (HD) demand.
C13_ProportionalShares ==
    \A fips \in Processed :
        LET state_df == t_state_df[fips]
            ld_sum == PlainSum([k \in 1..Len(state_df) |-> <<state_df[k].LD_VMT, 1>>])
            hd_sum == PlainSum([k \in 1..Len(state_df) |-> <<state_df[k].HD_VMT, 1>>])
        IN /\ \A k \in 1..Len(state_df) :
                 /\ state_df[k].LD_h2_demand
                       = FMul(FDiv(<<state_df[k].LD_VMT, 1>>, ld_sum), state_h2_demand[fips][1])
                 /\ state_df[k].HD_h2_demand
                       = FMul(FDiv(<<state_df[k].HD_VMT, 1>>, hd_sum), state_h2_demand[fips][2])
           /\ PlainSum(ColumnOf(state_df, "LD_h2_demand")) = state_h2_demand[fips][1]
           /\ PlainSum(ColumnOf(state_df, "HD_h2_demand")) = state_h2_demand[fips][2]

\* The rows of the tables of all the states, the loop having visited every file
AllStateRows == t_state_df[4] \o t_state_df[6]

\* C14: the LD, the HD and the total demand of the returned table, summed over
\* its load zones, equal the LD, the HD and the total demand of the rows of the
\* state tables, summed over the states (the function logs no correction).
C14_LoadZonesConserveDemand ==
    t_pc \in {"returned", "grid"}
       => \A col \in {"LD_h2_demand", "HD_h2_demand", "total_h2_demand"} :
             PlainSum(ColumnOf(load_zone_summary_df, col))
                = PlainSum(ColumnOf(AllStateRows, col))

Finite(x) == x[2] # 0

\* C15: a row of a visited state's table whose LD (HD) VMT is 0 carries an LD (HD)
\* demand of exactly 0, and so does a cell of the grid; every demand of the tables
\* and of the grid is a finite number, whatever the total weight.
C15_ZeroWeightGuard ==
    /\ \A fips \in Processed : \A k \in 1..Len(t_state_df[fips]) :
          LET row == t_state_df[fips][k]
          IN /\ row.LD_VMT = 0 => row.LD_h2_demand = <<0, 1>>
             /\ row.HD_VMT = 0 => row.HD_h2_demand = <<0, 1>>
             /\ Finite(row.LD_h2_demand) /\ Finite(row.HD_h2_demand)
             /\ Finite(row.total_h2_demand)
    /\ \A k \in 1..Len(wecc_vmt_grid) :
          LET cell == wecc_vmt_grid[k]
          IN /\ cell.LD_VMT = 0 => cell.ld_h2_demand = <<0, 1>>
             /\ cell.HD_VMT = 0 => cell.hd_h2_demand = <<0, 1>>
             /\ Finite(cell.ld_h2_demand) /\ Finite(cell.hd_h2_demand)
             /\ Finite(cell.total_h2_demand)

----------------------------------------------------------------------------
(* industry/aggregate_and_plot.py: aggregate_by_lz *)

MaxPoints == 2

\* load_zones.shp, on one axis: the zones are intervals of longitude that share
\* their end points and nothing else (a partition with unique names)
load_zones ==
    [k \in 1..MaxZones |-> [LOAD_AREA |-> ZoneNames[k], west |-> 2 * (k - 1), east |-> 2 * k]]

\* The longitudes a facility can have: in a zone, on a border, outside all zones
Longitudes == 0..(2 * MaxZones + 1)

\* predicate='within': the point lies in the interior of the zone
Within(longitude, zone) == zone.west < longitude /\ longitude < zone.east

\* predicate='intersects': the point lies in the zone or on its border
Intersects(longitude, zone) == zone.west <= longitude /\ longitude <= zone.east

\* sjoin(how='inner') and groupby('LOAD_AREA').sum() under a predicate: a row per
\* zone that has a joined facility, in the order of the zone names
LoadZoneSums(df, predicate) ==
    LET joined(k) == SelectSeq(df, LAMBDA r : IF predicate = "within"
                                              THEN Within(r.Longitude, load_zones[k])
                                              ELSE Intersects(r.Longitude, load_zones[k]))
        with_rows == SelectSeq([k \in 1..Len(load_zones) |-> k],
                               LAMBDA k : Len(joined(k)) > 0)
    IN [i \in 1..Len(with_rows) |->
          [load_zone |-> load_zones[with_rows[i]].LOAD_AREA,
           total_h2_demand_kg |->
               SkipNaSum(ColumnOf(joined(with_rows[i]), "total_h2_demand_kg"))]]

\* aggregate_by_lz with the join on 'intersects'
aggregate_by_lz_intersects(df) ==
    LoadZoneSums(SelectSeq(df, LAMBDA r : FLess(<<0, 1>>, r.total_h2_demand_kg)),
                 "intersects")

aggregate_by_lz(df) ==
    LoadZoneSums(SelectSeq(df, LAMBDA r : FLess(<<0, 1>>, r.total_h2_demand_kg)), "within")

\* total_h2_demand_kg of a facility: none, some, or missing
FacilityDemands == {<<0, 1>>, <<1, 1>>, <<5, 2>>, NaN}

\* The facility frames of n rows
FacilityFrames(n) ==
    [1..n -> [Longitude : Longitudes, total_h2_demand_kg : FacilityDemands]]

ACall ==
    /\ a_pc = "call"
    /\ a_out' = aggregate_by_lz(facility_df)
    /\ a_pc' = "returned"
    /\ UNCHANGED <<facility_df, dvars, pvars, cvars, ivars, tvars, evars, nvars, qvars, svars,
                 rvars>>

\* The facilities of the frame with positive demand that lie within the zone
CountedIn(zone) ==
    SelectSeq(facility_df, LAMBDA r : /\ FLess(<<0, 1>>, r.total_h2_demand_kg)
                                      /\ Within(r.Longitude, zone))

\* The total the returned table gives for a zone; 0 if it has no row for it
ZoneTotal(summary, name) ==
    PlainSum(ColumnOf(SelectSeq(summary, LAMBDA row : row.load_zone = name),
                      "total_h2_demand_kg"))

\* C16: in the table aggregate_by_lz returned, the total of each load zone is the
\* sum of the demands of the facilities with positive demand that lie within it;
\* every such facility lies within exactly one zone, so it is counted once, the
\* totals of all zones add up to the demand of these facilities, and a facility
\* within no zone is in no total.
C16_PointInPolygon ==
    a_pc = "returned"
       => /\ \A k \in 1..Len(load_zones) :
                ZoneTotal(a_out, load_zones[k].LOAD_AREA)
                   = PlainSum(ColumnOf(CountedIn(load_zones[k]), "total_h2_demand_kg"))
          /\ \A i \in 1..Len(a_out) :
                \E k \in 1..Len(load_zones) :
                    /\ a_out[i].load_zone = load_zones[k].LOAD_AREA
                    /\ Len(CountedIn(load_zones[k])) > 0
          /\ \A i \in 1..Len(a_out), j \in 1..Len(a_out) :
                a_out[i].load_zone = a_out[j].load_zone => i = j
          /\ PlainSum(ColumnOf(a_out, "total_h2_demand_kg"))
                = PlainSum(ColumnOf(
                      SelectSeq(facility_df,
                                LAMBDA r : /\ FLess(<<0, 1>>, r.total_h2_demand_kg)
                                           /\ \E k \in 1..Len(load_zones) :
                                                 Within(r.Longitude, load_zones[k])),
                      "total_h2_demand_kg"))

\* The call returned on a frame with a facility of positive demand within a zone
\* and another on the border of two zones
C16_Witness ==
    /\ a_pc = "returned"
    /\ Len(a_out) = 1
    /\ a_out[1].total_h2_demand_kg = <<5, 2>>
    /\ \E i \in 1..Len(facility_df) :
          /\ facility_df[i].Longitude = 2
          /\ FLess(<<0, 1>>, facility_df[i].total_h2_demand_kg)

----------------------------------------------------------------------------
(* industry/industry_h2.py: model_one_year, steps 4 to 6, and                *)
(* industry/aggregate_and_plot.py: create_demand_grid                        *)

MaxPlants == 1

\* ONE_MILLION / BTU_IN_1LB_H2 * LB_TO_KG = 7.434..., taken as 15/2 to keep the
\* sums of demands within TLC's integers
KgPerMMBtu == <<15, 2>>

\* existing_h2_pct_decarb of a model year, as run_model.py lists them
ExistingPcts == {5, 20}

\* A row of existing_hydrogen_plants_wecc_2023.csv with the columns step 5 sets;
\* the columns it does not have are NaN after the concat
ExistingPlant(k, existing_h2_pct_decarb) ==
    [Facility_Id |-> 200 + k, NAICS_Code |-> "325120",
     Sector |-> "Existing Hydrogen Plants",
     Longitude |-> 2 * (((k - 1) % MaxZones) + 1) - 1,
     fuel_demand_mmBtu |-> NaN,
     proj_fuel_demand_mmBtu |-> NaN,
     hydrogen_demand_kg |-> <<40 * k, 1>>,
     total_h2_demand_kg |-> FMul(<<40 * k, 1>>, <<existing_h2_pct_decarb, 100>>),
     inWestCensus |-> "NaN", inWECC |-> TRUE,
     file |-> [folder |-> "existing_hydrogen_plants", sector |-> "Existing Hydrogen Plants"]]

\* results_by_facility_df['total_h2_demand_kg'] = proj_fuel_demand_mmBtu * ...
WithKg(df) ==
    [k \in 1..Len(df) |->
        [f \in DOMAIN df[k] \cup {"total_h2_demand_kg"} |->
            IF f = "total_h2_demand_kg" THEN FMul(df[k].proj_fuel_demand_mmBtu, KgPerMMBtu)
            ELSE df[k][f]]]

\* results_by_facility_df[inWECC == True] with Sector = NAICS Code.map(get_sector);
\* hydrogen_demand_kg is NaN in these rows after the concat of step 5
Filtered(df) ==
    LET in_wecc == SelectSeq(df, LAMBDA r : r.inWECC = TRUE)
    IN [k \in 1..Len(in_wecc) |->
          [f \in DOMAIN in_wecc[k] \cup {"hydrogen_demand_kg"} |->
              IF f = "hydrogen_demand_kg" THEN NaN
              ELSE IF f = "Sector" THEN get_sector(in_wecc[k].NAICS_Code)
              ELSE in_wecc[k][f]]]

\* vmt_grid_wecc.gpkg on one axis: the cell of index k is centred on longitude
\* k - 1 and a unit wide; twice_longitude keeps its borders whole
wecc_grid ==
    [k \in 1..(2 * MaxZones + 1) |-> [west |-> 2 * (k - 1) - 1, east |-> 2 * (k - 1) + 1]]

\* sjoin(how='left', predicate='intersects'), groupby('index_right').sum(), the
\* merge onto the grid and fillna(0)
create_demand_grid(df) ==
    [k \in 1..Len(wecc_grid) |->
        [cell |-> k - 1,
         total_h2_demand_kg |->
             SkipNaSum(ColumnOf(SelectSeq(df, LAMBDA r : Intersects(2 * r.Longitude,
                                                                     wecc_grid[k])),
                                "total_h2_demand_kg"))]]

\* Steps 4 to 6 and the return of model_one_year
IFinish ==
    /\ i_pc = "step4"
    /\ \E n \in 0..MaxPlants, existing_h2_pct_decarb \in ExistingPcts :
          /\ existing_h2_plants_df' =
                 [k \in 1..n |-> ExistingPlant(k, existing_h2_pct_decarb)]
          /\ results_by_facility_df' = WithKg(results_by_facility_df)
          /\ filtered_df' = Filtered(results_by_facility_df') \o existing_h2_plants_df'
          /\ aggregated_by_lz' = aggregate_by_lz(results_by_facility_df')
          /\ result_grid' = create_demand_grid(filtered_df')
          /\ logs' = [file \in DOMAIN logs \cup {"final_demand_by_facility.csv"} |->
                         IF file = "final_demand_by_facility.csv" THEN filtered_df'
                         ELSE logs[file]]
    /\ i_pc' = "returned"
    /\ UNCHANGED <<IInputs, discrepancies_by_sector, i_raised, i_todo, i_sector,
                   dvars, pvars, cvars, tvars, avars, evars, nvars, qvars,
                 svars, rvars>>

INext ==
    \/ \E sector \in SectorNames : IMissing(sector)
    \/ ICalcDiscrepancies
    \/ ISector
    \/ IEndStep3
    \/ IFinish

\* The demands of the final facility-level result that are positive and lie
\* within the zone
FinalIn(zone) ==
    ColumnOf(SelectSeq(filtered_df, LAMBDA r : /\ FLess(<<0, 1>>, r.total_h2_demand_kg)
                                               /\ Within(r.Longitude, zone)),
             "total_h2_demand_kg")

\* The demands of the cells of the grid whose centre lies within the zone
GridIn(zone) ==
    ColumnOf(SelectSeq(result_grid, LAMBDA c : Within(c.cell, zone)), "total_h2_demand_kg")

\* C17: when model_one_year has returned, the total of each load zone in the
\* returned table includes total_h2_demand_kg of every existing hydrogen plant
\* within the zone: it is the sum over the final facility-level result within the
\* zone, and the sum over the cells of the year's grid within the zone.
C17_LoadZoneTotalsIncludeExisting ==
    i_pc = "returned"
       => \A k \in 1..Len(load_zones) :
             /\ ZoneTotal(aggregated_by_lz, load_zones[k].LOAD_AREA)
                   = PlainSum(FinalIn(load_zones[k]))
             /\ ZoneTotal(aggregated_by_lz, load_zones[k].LOAD_AREA)
                   = PlainSum(GridIn(load_zones[k]))

----------------------------------------------------------------------------
(* industry/industry_h2.py: calc_epa_ghgrp_fuel_consumption, on one file of   *)
(* units_and_fuel/                                                           *)

MaxUnits == 2
MaxFuels == 3

\* The emissions-factor table: the fuel type, kg CO2 per mmBtu and the EIA AEO
\* category of each row.  Both dictionaries of the function are built from it.
fuel_emissions_df ==
    <<[Fuel_Type |-> "Natural Gas", kg_CO2_per_mmBtu |-> <<50, 1>>,
       EIA_AEO_Category |-> "Natural Gas"],
      [Fuel_Type |-> "Bituminous", kg_CO2_per_mmBtu |-> <<100, 1>>,
       EIA_AEO_Category |-> "Coal"],
      [Fuel_Type |-> "Fuel Gas", kg_CO2_per_mmBtu |-> <<60, 1>>,
       EIA_AEO_Category |-> "Natural Gas"],
      [Fuel_Type |-> "Wood and Wood Residuals", kg_CO2_per_mmBtu |-> <<90, 1>>,
       EIA_AEO_Category |-> "Biofuels and Other"],
      [Fuel_Type |-> "Used Oil", kg_CO2_per_mmBtu |-> <<75, 1>>,
       EIA_AEO_Category |-> "NaN"]>>

TableFuels == {fuel_emissions_df[k].Fuel_Type : k \in 1..Len(fuel_emissions_df)}

TableRow(fuel) ==
    fuel_emissions_df[CHOOSE k \in 1..Len(fuel_emissions_df) :
                          fuel_emissions_df[k].Fuel_Type = fuel]

fuel_emissions_dict(fuel) == TableRow(fuel).kg_CO2_per_mmBtu

aeo_fuel_category_dict(fuel) == TableRow(fuel).EIA_AEO_Category

\* A fuel of the table whose category cell is empty: the dictionary maps it to NaN
HasNoCategory(fuel) == fuel \in TableFuels /\ aeo_fuel_category_dict(fuel) = "NaN"

\* 'Biofuels' in aeo_fuel_category_dict[fuel], for a category that is a string
IsBiofuel(fuel) == aeo_fuel_category_dict(fuel) \in {"Biofuels and Other"}

\* 1 + fuel_growth_by_category_dict[category]
GrowthFactor(category) == IF category = "Natural Gas" THEN <<11, 10>> ELSE <<1, 1>>

\* high_temp_decarb_pct / 100 * get_high_heat_emissions_share(sector_name)
HighHeatFactor == <<1, 40>>

\* 'Specific Fuel Type' of the rows of a unit, in the order of the file: missing
\* (NaN, which stands for Natural Gas), another fuel of the table, or a fuel the
\* table does not list
RowFuels == <<"NaN", "Bituminous", "Fuel Gas", "Wood and Wood Residuals", "Used Oil",
              "Unlisted Fuel">>

\* unit_df['Specific Fuel Type'].fillna('Natural Gas')
FillNa(rows) == [i \in 1..Len(rows) |-> IF rows[i] = "NaN" THEN "Natural Gas" ELSE rows[i]]

\* The rows of a unit that name the fuels of a set, in the order of the file
FuelRows(fuels) == SelectSeq(RowFuels, LAMBDA fuel : fuel \in fuels)

\* A unit of the file: its facility, its name, its CO2 emissions (metric tons) and
\* the fuel types of its rows, which are distinct once the missing one is filled in
Unit(facility_id, k, fuels) ==
    [Facility_Id |-> facility_id, Unit_Name |-> k, unit_CO2_emissions |-> 3 * k,
     Specific_Fuel_Type |-> FuelRows(fuels)]

FuelSets == {fuels \in SUBSET SeqRange(RowFuels) :
                /\ Cardinality(fuels) >= 1
                /\ Cardinality(fuels) <= MaxFuels}

\* The files of n units, all of one facility or each of its own
UnitFiles(n) ==
    {[k \in 1..n |-> Unit(IF one_facility THEN 1 ELSE k, k, fuels[k])] :
        fuels \in [1..n -> FuelSets], one_facility \in BOOLEAN}

\* unit_fuels after the loop over the rows with the biofuel rows kept
unit_fuels_with_biofuels(rows) == rows

\* unit_fuels after the loop over the rows of a unit: a biofuel row is skipped
\* before the fuel is appended
unit_fuels(rows) == SelectSeq(rows, LAMBDA fuel : ~IsBiofuel(fuel))

\* The demand of each fuel of a unit with the unit's demand not divided
fuel_demand_unsplit(unit_demand_mmBtu, n) == unit_demand_mmBtu

\* fuel_demand_by_unit_fuel = unit_demand_mmBtu / len(unit_fuels)
fuel_demand_by_unit_fuel(unit_demand_mmBtu, n) == FDiv(unit_demand_mmBtu, <<n, 1>>)

\* The records a unit adds to breakdown_by_fuel: none if the emissions factors of
\* its fuels add up to 0 (a unit of biofuels only)
UnitRecords(unit) ==
    LET fuels == unit_fuels(FillNa(unit.Specific_Fuel_Type))
        emissions_factor_total ==
            FSum([i \in 1..Len(fuels) |-> fuel_emissions_dict(fuels[i])])
        avg_emissions_factor == FDiv(emissions_factor_total, <<Len(fuels), 1>>)
        unit_demand_mmBtu == FDiv(<<unit.unit_CO2_emissions * 1000, 1>>, avg_emissions_factor)
        per_fuel == fuel_demand_by_unit_fuel(unit_demand_mmBtu, Len(fuels))
    IN IF emissions_factor_total = <<0, 1>> THEN <<>>
       ELSE [i \in 1..Len(fuels) |->
               [Facility_Id |-> unit.Facility_Id, Unit_Name |-> unit.Unit_Name,
                Fuel |-> fuels[i],
                CO2_Emissions |-> FDiv(<<unit.unit_CO2_emissions, 1>>, <<Len(fuels), 1>>),
                fuel_demand_mmBtu |-> per_fuel,
                proj_fuel_demand_mmBtu |->
                    FMul(FMul(GrowthFactor(aeo_fuel_category_dict(fuels[i])), per_fuel),
                         HighHeatFactor)]]

\* Whether the unit in hand is the last unit of its facility
LastOfFacility ==
    \/ e_unit = Len(industry_facilities_df)
    \/ industry_facilities_df[e_unit + 1].Facility_Id
          # industry_facilities_df[e_unit].Facility_Id

\* What the biofuel test of a row raises: KeyError for a fuel that is not in the
\* table, TypeError for a fuel whose category is NaN (a float has no `in`)
BiofuelTestRaises(fuel) ==
    IF fuel \notin TableFuels THEN "KeyError"
    ELSE IF HasNoCategory(fuel) THEN "TypeError"
    ELSE "none"

\* One pass of the loop over the units of a facility.  The first row whose biofuel
\* test raises ends the function, as no try encloses the test; otherwise
\* the unit's records are appended and added to the facility's totals, and the
\* facility's record is appended after its last unit.
EUnit ==
    /\ e_pc = "loop"
    /\ e_unit <= Len(industry_facilities_df)
    /\ LET unit == industry_facilities_df[e_unit]
           records == UnitRecords(unit)
           fuel_total == FAdd(facility_fuel_demand_mmBtu,
                              FSum(ColumnOf(records, "fuel_demand_mmBtu")))
           proj_total == FAdd(proj_facility_fuel_demand_mmBtu,
                              FSum(ColumnOf(records, "proj_fuel_demand_mmBtu")))
           rows == FillNa(unit.Specific_Fuel_Type)
       IN IF \E i \in 1..Len(rows) : BiofuelTestRaises(rows[i]) # "none"
          THEN /\ e_pc' = "raised"
               /\ e_raised' =
                     BiofuelTestRaises(rows[CHOOSE i \in 1..Len(rows) :
                                               /\ BiofuelTestRaises(rows[i]) # "none"
                                               /\ \A j \in 1..(i - 1) :
                                                     BiofuelTestRaises(rows[j]) = "none"])
               /\ UNCHANGED <<breakdown_by_fuel, results_by_sector,
                              facility_fuel_demand_mmBtu, proj_facility_fuel_demand_mmBtu,
                              e_unit>>
          ELSE /\ breakdown_by_fuel' = breakdown_by_fuel \o records
               /\ IF LastOfFacility
                  THEN /\ results_by_sector' =
                             Append(results_by_sector,
                                    [Facility_Id |-> unit.Facility_Id,
                                     fuel_demand_mmBtu |-> fuel_total,
                                     proj_fuel_demand_mmBtu |-> proj_total])
                       /\ facility_fuel_demand_mmBtu' = <<0, 1>>
                       /\ proj_facility_fuel_demand_mmBtu' = <<0, 1>>
                  ELSE /\ facility_fuel_demand_mmBtu' = fuel_total
                       /\ proj_facility_fuel_demand_mmBtu' = proj_total
                       /\ UNCHANGED results_by_sector
               /\ e_unit' = e_unit + 1
               /\ UNCHANGED <<e_pc, e_raised>>
    /\ UNCHANGED <<industry_facilities_df, dvars, pvars, cvars, ivars, tvars, avars, nvars,
                 qvars, svars, rvars>>

\* The loops have ended and the function returns
EReturn ==
    /\ e_pc = "loop"
    /\ e_unit > Len(industry_facilities_df)
    /\ e_pc' = "returned"
    /\ UNCHANGED <<industry_facilities_df, breakdown_by_fuel, results_by_sector,
                   facility_fuel_demand_mmBtu, proj_facility_fuel_demand_mmBtu, e_unit,
                   e_raised, dvars, pvars, cvars, ivars, tvars, avars, nvars,
                 qvars, svars, rvars>>

ENext == EUnit \/ EReturn

\* The fuels of a unit's rows that the table lists and that are no biofuel
Convertible(unit) ==
    SelectSeq(FillNa(unit.Specific_Fuel_Type),
              LAMBDA fuel : fuel \in TableFuels /\ ~IsBiofuel(fuel))

\* The per-fuel records of the k-th unit of the file
RecordsOf(k) ==
    SelectSeq(breakdown_by_fuel, LAMBDA r : r.Unit_Name = industry_facilities_df[k].Unit_Name)

\* The unit's emissions-derived energy: its CO2 emissions (kg) over the mean
\* emissions factor of the fuels
EnergyOf(unit, fuels) ==
    FDiv(<<unit.unit_CO2_emissions * 1000, 1>>,
         FMean([i \in 1..Len(fuels) |-> fuel_emissions_dict(fuels[i])]))

\* C18: a row whose fuel type the emissions-factor table does not list does not
\* end the processing, and when the function has returned every listed fuel that
\* is no biofuel, of every unit of the file, has its record.
C18_UnknownFuelSkipped ==
    /\ e_pc # "raised"
    /\ e_pc = "returned"
          => \A k \in 1..Len(industry_facilities_df) :
                \A i \in 1..Len(Convertible(industry_facilities_df[k])) :
                    \E j \in 1..Len(RecordsOf(k)) :
                        RecordsOf(k)[j].Fuel = Convertible(industry_facilities_df[k])[i]

C20_BiofuelExcluded ==
    \A u \in 1..(e_unit - 1) :
        LET unit == industry_facilities_df[u]
            rows == FillNa(unit.Specific_Fuel_Type)
            others == SelectSeq(rows, LAMBDA fuel : ~IsBiofuel(fuel))
            k == Len(others)
        IN /\ \A j \in 1..Len(RecordsOf(u)) : ~IsBiofuel(RecordsOf(u)[j].Fuel)
           /\ (\E i \in 1..Len(rows) : IsBiofuel(rows[i]))
                 => /\ Len(RecordsOf(u)) = k
                    /\ \A j \in 1..k :
                          RecordsOf(u)[j].fuel_demand_mmBtu
                             = FDiv(FDiv(<<unit.unit_CO2_emissions * 1000 * k, 1>>,
                                         FSum([i \in 1..k |-> fuel_emissions_dict(others[i])])),
                                    <<k, 1>>)

\* The loop has processed a unit with a biofuel row and two other fuels
C20_Witness ==
    \E u \in 1..(e_unit - 1) :
        /\ e_pc # "idle"
        /\ \E i \in 1..Len(industry_facilities_df[u].Specific_Fuel_Type) :
              IsBiofuel(FillNa(industry_facilities_df[u].Specific_Fuel_Type)[i])
        /\ Len(RecordsOf(u)) = 2

\* Every fuel type of the file, once the missing ones are filled in, is in the table
AllFuelsListed ==
    \A k \in 1..Len(industry_facilities_df) :
        \A i \in 1..Len(industry_facilities_df[k].Specific_Fuel_Type) :
            FillNa(industry_facilities_df[k].Specific_Fuel_Type)[i] \in TableFuels

\* C26: when every fuel of the file is in the table, a fuel whose AEO category is
\* missing does not end the processing: the function returns, and the fuel has a
\* record in its unit whose projected demand is the record's fuel demand times the
\* decarbonization factor and the high-heat share, that is, with 0% growth.
C26_MissingCategoryZeroGrowth ==
    (e_pc \in {"returned", "raised"} /\ AllFuelsListed)
        => /\ e_pc = "returned"
           /\ \A k \in 1..Len(industry_facilities_df) :
                 \A i \in 1..Len(industry_facilities_df[k].Specific_Fuel_Type) :
                     LET fuel == FillNa(industry_facilities_df[k].Specific_Fuel_Type)[i]
                     IN HasNoCategory(fuel)
                           => \E j \in 1..Len(RecordsOf(k)) :
                                 /\ RecordsOf(k)[j].Fuel = fuel
                                 /\ RecordsOf(k)[j].proj_fuel_demand_mmBtu
                                       = FMul(RecordsOf(k)[j].fuel_demand_mmBtu,
                                              HighHeatFactor)

----------------------------------------------------------------------------
(* Normalization of a shape, as disaggregate_annual_to_hourly and               *)
(* generate_one_week_normalized_profile do it; the industry pipeline normalizes  *)
(* its weekly shape in the second and again in the first                         *)

MaxWeights == 3
MaxWeight == 2
MaxDen == 4

\* The shapes: one to MaxWeights weights, each a multiple of 1/den up to MaxWeight/den
Shapes(n) ==
    {[nums |-> Tuple(nums), den |-> den] : nums \in [1..n -> 0..MaxWeight], den \in 1..MaxDen}

\* One normalization: of the shape first, then of the weights the last one returned
NCall ==
    /\ n_pc = "call"
    /\ Len(n_out) < 2
    /\ n_out' = Append(n_out, Normalize(IF n_out = <<>> THEN n_profile ELSE n_out[Len(n_out)]))
    /\ UNCHANGED <<n_profile, n_pc, dvars, pvars, cvars, ivars, tvars, avars, evars, qvars,
                 svars, rvars>>

\* Two columns of floats hold the same values, position by position (both all NaN
\* when a zero sum was divided by)
SameWeights(a, b) ==
    /\ ArrLen(a) = ArrLen(b)
    /\ IF a.den = 0 \/ b.den = 0 THEN a.den = b.den
       ELSE \A i \in 1..ArrLen(a) : a.nums[i] * b.den = b.nums[i] * a.den

\* C24: a shape whose weights sum to 1 comes back from the normalization with the
\* same weights, and a second normalization returns the weights of the first.
C24_NormalizeIdempotent ==
    /\ (Len(n_out) >= 1 /\ ArrSum(n_profile) = <<1, 1>>) => SameWeights(n_out[1], n_profile)
    /\ Len(n_out) = 2 => SameWeights(n_out[2], n_out[1])

\* Two normalizations were made of a shape of unequal fractional weights that sum to 1
C24_Witness ==
    /\ Len(n_out) = 2
    /\ ArrSum(n_profile) = <<1, 1>>
    /\ n_profile.den > 1
    /\ \E i, j \in 1..ArrLen(n_profile) : n_profile.nums[i] # n_profile.nums[j]

----------------------------------------------------------------------------
(* transport/param_projections.py: the assumptions of a model year *)

FirstTableYear == 2023
MaxYearsOutside == 30

\* The gasoline table of rel_change_LD_fuel_consumption, in billionths
LD_fuel_consumption_table ==
    <<0, 44296462, 45407622, 38791880, 26124817, 9437798,
      -11174183, -36683746, -62145440, -92381316, -123083584,
      -152594123, -182237921, -213101243, -243269246, -270902176,
      -297043504, -320372834, -341785382, -362760544, -379842021,
      -396697179, -410141974, -423007724, -433134651, -444919444,
      -452629225, -458355589>>

\* The diesel table of rel_change_HD_fuel_consumption, in ten-thousandths
HD_fuel_consumption_table ==
    <<0, 682, 726, 682, 586,
      449, 292, 108, -146, -493,
      -851, -1160, -1447, -1703, -1930,
      -2135, -2323, -2492, -2654, -2793,
      -2919, -3032, -3124, -3203, -3265,
      -3311, -3341, -3368>>

\* list[index] of Python: a negative index counts from the end of the list, and an
\* index beyond either end raises IndexError
ListIndexRaises(list, index) == index >= Len(list) \/ index < -Len(list)

ListItem(list, index) ==
    IF index >= 0 THEN list[index + 1] ELSE list[Len(list) + index + 1]

rel_change_LD_fuel_consumption(year) ==
    IF ListIndexRaises(LD_fuel_consumption_table, year - FirstTableYear)
    THEN [raised |-> "IndexError", value |-> NaN]
    ELSE [raised |-> "none",
          value |-> Rat(ListItem(LD_fuel_consumption_table, year - FirstTableYear), 10^9)]

rel_change_HD_fuel_consumption(year) ==
    IF ListIndexRaises(HD_fuel_consumption_table, year - FirstTableYear)
    THEN [raised |-> "IndexError", value |-> NaN]
    ELSE [raised |-> "none",
          value |-> Rat(ListItem(HD_fuel_consumption_table, year - FirstTableYear), 10^4)]

\* The line through the relative efficiencies of 2020 and 2050
lin_projection(rel_efficiency_2020, rel_efficiency_2050, yr) ==
    FAdd(FMul(FDiv(FSub(rel_efficiency_2050, rel_efficiency_2020), <<30, 1>>),
              <<yr - 2020, 1>>),
         rel_efficiency_2020)

LD_FCEV_to_ICEV_efficiency(year) ==
    lin_projection(FDiv(<<83 + 60, 2>>, <<33 + 23, 2>>),
                   FDiv(<<138 + 95, 2>>, <<40 + 30, 2>>), year)

HD_FCEV_to_ICEV_efficiency(year) ==
    lin_projection(FDiv(<<85, 10>>, <<76, 10>>), FDiv(<<112, 10>>, <<77, 10>>), year)

DIESEL_FROM_ONROAD_TRANSPORT == Rat(8658, 10000)
GASOLINE_FROM_ONROAD_TRANSPORT == Rat(9899, 10000)

\* The list is built entry by entry, so the first lookup that raises ends the call
get_transport_parameters(year) ==
    LET ld == rel_change_LD_fuel_consumption(year)
        hd == rel_change_HD_fuel_consumption(year)
    IN IF ld.raised # "none" THEN [raised |-> ld.raised, value |-> <<>>]
       ELSE IF hd.raised # "none" THEN [raised |-> hd.raised, value |-> <<>>]
       ELSE [raised |-> "none",
             value |-> <<LD_FCEV_to_ICEV_efficiency(year), HD_FCEV_to_ICEV_efficiency(year),
                         ld.value, hd.value,
                         DIESEL_FROM_ONROAD_TRANSPORT, GASOLINE_FROM_ONROAD_TRANSPORT>>]

TableYears == FirstTableYear..(FirstTableYear + Len(LD_fuel_consumption_table) - 1)

\* The years asked for: those of the tables and MaxYearsOutside years on either side
LookupYears ==
    (FirstTableYear - MaxYearsOutside)..
        (FirstTableYear + Len(LD_fuel_consumption_table) - 1 + MaxYearsOutside)

QCall ==
    /\ q_pc = "call"
    /\ q_out' = get_transport_parameters(q_year)
    /\ q_pc' = IF q_out'.raised = "none" THEN "returned" ELSE "raised"
    /\ UNCHANGED <<q_year, dvars, pvars, cvars, ivars, tvars, avars, evars, nvars, svars, rvars>>

\* C30: for a year of 2023..2050 the two relative changes returned are the table
\* entries of that year; for any other year the call raises instead of returning.
C30_LookupByYear ==
    q_pc \in {"returned", "raised"}
        => IF q_year \in TableYears
           THEN /\ q_pc = "returned"
                /\ q_out.value[3]
                      = Rat(LD_fuel_consumption_table[q_year - FirstTableYear + 1], 10^9)
                /\ q_out.value[4]
                      = Rat(HD_fuel_consumption_table[q_year - FirstTableYear + 1], 10^4)
           ELSE q_pc = "raised"

----------------------------------------------------------------------------
(* transport/transport_h2.py: the state-level demand of model_transport_demand *)

MaxBarrels == 2

GASOLINE_TO_H2 == <<1, 1>>
DIESEL_TO_H2 == FDiv(<<1, 1>>, <<9, 10>>)

\* The penetrations run_model passes, percent
PenetrationPcts == {0, 5, 10, 20}

\* Rows of the fuel data: thousand barrels of gasoline and of diesel of one state
FuelDataRows ==
    {[fips |-> 6, gas |-> g, diesel |-> d] : g \in 0..MaxBarrels, d \in 0..MaxBarrels}

\* Assumptions of a model year: the two shares are those of param_projections, the
\* efficiencies and relative changes are drawn from a few short fractions
AssumptionLists ==
    {<<ld_eff, hd_eff, ld_change, hd_change,
       DIESEL_FROM_ONROAD_TRANSPORT, GASOLINE_FROM_ONROAD_TRANSPORT>> :
        ld_eff \in {<<5, 2>>}, hd_eff \in {<<1, 1>>, <<3, 2>>},
        ld_change \in {<<0, 1>>, <<-1, 4>>}, hd_change \in {<<0, 1>>, <<-1, 4>>}}

\* One pass of the loop over the fuel data: the list stored under the state's fips
state_h2_demand_entry(row, assumptions, ld_pct, hd_pct) ==
    LET ld_penetration == Rat(ld_pct, 100)
        hd_penetration == Rat(hd_pct, 100)
        LD_FCEV_TO_ICEV_efficiency == assumptions[1]
        HD_FCEV_TO_ICEV_efficiency == assumptions[2]
        rel_change_LD == assumptions[3]
        rel_change_HD == assumptions[4]
        GASOLINE_SHARE == assumptions[6]
        ref_gas_gallons == FMul(<<row.gas * 1000 * 42, 1>>, GASOLINE_SHARE)
        ref_diesel_gallons == FMul(<<row.diesel * 1000 * 42, 1>>, GASOLINE_SHARE)
        gas_gallons == FMul(ref_gas_gallons, FAdd(<<1, 1>>, rel_change_LD))
        diesel_gallons == FMul(ref_diesel_gallons, FAdd(<<1, 1>>, rel_change_HD))
        gas_offset_gallons == FMul(gas_gallons, ld_penetration)
        diesel_offset_gallons == FMul(diesel_gallons, hd_penetration)
        ld_h2_demand == FDiv(FMul(gas_offset_gallons, GASOLINE_TO_H2),
                             LD_FCEV_TO_ICEV_efficiency)
        hd_h2_demand == FDiv(FMul(diesel_offset_gallons, DIESEL_TO_H2),
                             HD_FCEV_TO_ICEV_efficiency)
        total_h2 == FAdd(ld_h2_demand, hd_h2_demand)
    IN <<ld_h2_demand, hd_h2_demand, total_h2>>

SRow ==
    /\ s_pc = "row"
    /\ s_out' = state_h2_demand_entry(s_row, s_assumptions, s_ld_pct, s_hd_pct)
    /\ s_pc' = "stored"
    /\ UNCHANGED <<s_row, s_assumptions, s_ld_pct, s_hd_pct,
                   dvars, pvars, cvars, ivars, tvars, avars, evars, nvars, qvars,
                 rvars>>

\* C25: the LD demand of a state is its gasoline narrowed by the gasoline share, and
\* the HD demand its diesel narrowed by the diesel share, each projected to the year,
\* taken at the penetration and converted to hydrogen at the relative efficiency.
C25_OwnShare ==
    s_pc = "stored"
        => /\ s_out[1] = FDiv(FMul(FMul(FMul(FMul(<<s_row.gas * 1000 * 42, 1>>,
                                                   GASOLINE_FROM_ONROAD_TRANSPORT),
                                              FAdd(<<1, 1>>, s_assumptions[3])),
                                         Rat(s_ld_pct, 100)),
                                    GASOLINE_TO_H2),
                               s_assumptions[1])
           /\ s_out[2] = FDiv(FMul(FMul(FMul(FMul(<<s_row.diesel * 1000 * 42, 1>>,
                                                   DIESEL_FROM_ONROAD_TRANSPORT),
                                              FAdd(<<1, 1>>, s_assumptions[4])),
                                         Rat(s_hd_pct, 100)),
                                    DIESEL_TO_H2),
                               s_assumptions[2])

----------------------------------------------------------------------------
(* run_model.py: a run of main over a list of model years *)

MaxRunYears == 2

\* The model years a user may list: two of the tables, one before and one after them
RunYearChoices == {2022, 2030, 2040, 2051}

\* The parameters of one model year: the penetrations of the transport sector and the
\* decarbonization percentages of the industry sector, as listed position by position
ParameterChoices ==
    {[LD_FCEV_penetration |-> 0, HD_FCEV_penetration |-> pct,
      existing_h2_pct_decarb |-> pct, high_temp_combustion_pct_decarb |-> pct] :
        pct \in {5, 10}}

\* The settings of a run: which sectors are modelled, n distinct years, their parameters
RunSettings(n) ==
    {[model_transport_h2 |-> t, model_industry_h2 |-> i, years |-> Tuple(ys),
      parameters |-> Tuple(ps)] :
        t \in BOOLEAN, i \in BOOLEAN,
        ys \in {f \in [1..n -> RunYearChoices] : \A a, b \in 1..n : a # b => f[a] # f[b]},
        ps \in [1..n -> ParameterChoices]}

\* The load zones of the summaries
RunZones == SubSeq(ZoneNames, 1, MaxZones)

\* The years of the fuel use projections read by model_one_year
ProjectionYears == 2022..2050

\* The frame has the column: the column is a field of the frame's rows
HasColumn(rows, column) == \A k \in 1..Len(rows) : column \in DOMAIN rows[k]

\* The rows disaggregate_by_load_zone returns for a year: one per load zone, each
\* demand standing as the assumptions and penetration it is computed from
TransportYearRows(assumptions, ld_pct, hd_pct, year) ==
    [z \in 1..Len(RunZones) |->
        [load_zone |-> RunZones[z],
         LD_h2_demand |-> <<assumptions[1], assumptions[3], assumptions[6], ld_pct>>,
         HD_h2_demand |-> <<assumptions[2], assumptions[4], assumptions[6], hd_pct>>,
         total_h2_demand |-> <<assumptions, ld_pct, hd_pct>>,
         year |-> year]]

\* One pass of the loop of model_transport_demand
TransportYear(ld_pct, hd_pct, year) ==
    LET assumptions == get_transport_parameters(year)
    IN IF assumptions.raised # "none"
       THEN [raised |-> assumptions.raised, value |-> <<>>]
       ELSE [raised |-> "none",
             value |-> TransportYearRows(assumptions.value, ld_pct, hd_pct, year)]

\* model_one_year: the growth is read at the second of the projection rows of 2022
\* and of the year; the rows returned are aggregate_by_lz's with the year put in
IndustryYear(existing_pct, high_temp_pct, year) ==
    IF Cardinality({2022, year} \cap ProjectionYears) < 2
    THEN [raised |-> "IndexError", value |-> <<>>]
    ELSE [raised |-> "none",
          value |-> [z \in 1..Len(RunZones) |->
                        [load_zone |-> RunZones[z],
                         total_h2_demand_kg |-> <<existing_pct, high_temp_pct, year>>,
                         year |-> year]]]

\* sort_values(by=['load_zone', 'year']) of rows of distinct zone and year pairs
RowBefore(a, b) ==
    \/ ZoneIndex(a.load_zone) < ZoneIndex(b.load_zone)
    \/ a.load_zone = b.load_zone /\ a.year < b.year

SortByZoneAndYear(rows) ==
    LET n == Len(rows)
        rank(k) == Cardinality({j \in 1..n : RowBefore(rows[j], rows[k])}) + 1
    IN Tuple([r \in 1..n |-> rows[CHOOSE k \in 1..n : rank(k) = r]])

\* model_transport_demand and model_industry_demand over a list of years: the frame
\* returned, or the exception of the first year that raises
RECURSIVE model_sector_demand(_, _, _, _)
model_sector_demand(sector, parameters, years, index) ==
    IF index = Len(years) THEN [raised |-> "none", value |-> <<>>]
    ELSE LET p == parameters[index + 1]
             one == IF sector = "transport"
                    THEN TransportYear(p.LD_FCEV_penetration, p.HD_FCEV_penetration,
                                       years[index + 1])
                    ELSE IndustryYear(p.existing_h2_pct_decarb,
                                      p.high_temp_combustion_pct_decarb, years[index + 1])
             rest == model_sector_demand(sector, parameters, years, index + 1)
         IN IF one.raised # "none" THEN one
            ELSE IF rest.raised # "none" THEN rest
            ELSE [raised |-> "none", value |-> one.value \o rest.value]

Event(sector, stage, year) == [sector |-> sector, stage |-> stage, year |-> year]

NoFailure == [exception |-> "none", sector |-> "none", year |-> 0]

RRaise(exception, sector, year) ==
    /\ r_pc' = "raised"
    /\ r_raised' = [exception |-> exception, sector |-> sector, year |-> year]

\* main up to the first sector: outputs/ is emptied and made anew
RMain ==
    /\ r_pc = "main"
    /\ r_pc' = IF r_settings.model_transport_h2 THEN "transport_years"
               ELSE IF r_settings.model_industry_h2 THEN "industry_years"
               ELSE "done"
    /\ r_index' = 0
    /\ r_summary' = <<>>
    /\ r_files' = [summary |-> [s \in {"transport", "industry"} |-> <<>>],
                   grids |-> [s \in {"transport", "industry"} |-> {}],
                   profiles |-> [s \in {"transport", "industry"} |-> {}]]
    /\ UNCHANGED <<r_settings, r_trace, r_raised,
                   dvars, pvars, cvars, ivars, tvars, avars, evars, nvars, qvars, svars>>

\* One pass of the loop of model_transport_demand: the state demands, their
\* disaggregation by load zone, the year's grid, the rows joined to the summary
RTransportYear ==
    /\ r_pc = "transport_years"
    /\ r_index < Len(r_settings.years)
    /\ LET year == r_settings.years[r_index + 1]
           p == r_settings.parameters[r_index + 1]
           one == TransportYear(p.LD_FCEV_penetration, p.HD_FCEV_penetration, year)
       IN IF one.raised # "none"
          THEN /\ RRaise(one.raised, "transport", year)
               /\ UNCHANGED <<r_index, r_summary, r_files, r_trace>>
          ELSE /\ r_index' = r_index + 1
               /\ r_summary' = r_summary \o one.value
               /\ r_files' = [r_files EXCEPT !.grids.transport = @ \cup {year}]
               /\ r_trace' = r_trace \o <<Event("transport", "conversion", year),
                                          Event("transport", "spatial allocation", year)>>
               /\ UNCHANGED <<r_pc, r_raised>>
    /\ UNCHANGED <<r_settings,
                   dvars, pvars, cvars, ivars, tvars, avars, evars, nvars, qvars, svars>>

\* After the loop: the summary is sorted, saved and returned to model_transport_sector
RTransportReturn ==
    /\ r_pc = "transport_years"
    /\ r_index = Len(r_settings.years)
    /\ r_summary' = SortByZoneAndYear(r_summary)
    /\ r_files' = [r_files EXCEPT !.summary.transport = r_summary']
    /\ r_pc' = "transport_profile"
    /\ UNCHANGED <<r_settings, r_index, r_trace, r_raised,
                   dvars, pvars, cvars, ivars, tvars, avars, evars, nvars, qvars, svars>>

\* build_profile of the transport sector on the summary returned: row after row, in
\* the order of the summary, and then main's step to what comes next
RTransportProfile ==
    /\ r_pc = "transport_profile"
    /\ IF \E column \in {"total_h2_demand", "load_zone", "year", "LD_h2_demand",
                         "HD_h2_demand"} : ~HasColumn(r_summary, column)
       THEN /\ RRaise("KeyError", "transport", 0)
            /\ UNCHANGED <<r_files, r_trace>>
       ELSE /\ r_trace' = r_trace \o
                    [k \in 1..Len(r_summary) |->
                        Event("transport", "hourly disaggregation", r_summary[k].year)]
            /\ r_files' = [r_files EXCEPT !.profiles.transport =
                              {r_summary[k].load_zone : k \in 1..Len(r_summary)}]
            /\ r_pc' = IF r_settings.model_industry_h2 THEN "industry_years" ELSE "done"
            /\ UNCHANGED r_raised
    /\ r_index' = 0
    /\ r_summary' = <<>>
    /\ UNCHANGED <<r_settings,
                   dvars, pvars, cvars, ivars, tvars, avars, evars, nvars, qvars, svars>>

\* One pass of the loop of model_industry_demand: model_one_year and the concat
RIndustryYear ==
    /\ r_pc = "industry_years"
    /\ r_index < Len(r_settings.years)
    /\ LET year == r_settings.years[r_index + 1]
           p == r_settings.parameters[r_index + 1]
           one == IndustryYear(p.existing_h2_pct_decarb,
                               p.high_temp_combustion_pct_decarb, year)
       IN IF one.raised # "none"
          THEN /\ RRaise(one.raised, "industry", year)
               /\ UNCHANGED <<r_index, r_summary, r_files, r_trace>>
          ELSE /\ r_index' = r_index + 1
               /\ r_summary' = r_summary \o one.value
               /\ r_files' = [r_files EXCEPT !.grids.industry = @ \cup {year}]
               /\ r_trace' = r_trace \o <<Event("industry", "conversion", year),
                                          Event("industry", "reconciliation", year),
                                          Event("industry", "spatial allocation", year)>>
               /\ UNCHANGED <<r_pc, r_raised>>
    /\ UNCHANGED <<r_settings,
                   dvars, pvars, cvars, ivars, tvars, avars, evars, nvars, qvars, svars>>

RIndustryReturn ==
    /\ r_pc = "industry_years"
    /\ r_index = Len(r_settings.years)
    /\ r_summary' = SortByZoneAndYear(r_summary)
    /\ r_files' = [r_files EXCEPT !.summary.industry = r_summary']
    /\ r_pc' = "industry_profile"
    /\ UNCHANGED <<r_settings, r_index, r_trace, r_raised,
                   dvars, pvars, cvars, ivars, tvars, avars, evars, nvars, qvars, svars>>

\* build_profile of the industry sector on the summary returned: the row of highest
\* demand is looked up in column 'total_h2_demand' before any row is disaggregated,
\* and every row is disaggregated with a seasonal shape of 12 entries
RIndustryProfile ==
    /\ r_pc = "industry_profile"
    /\ IF ~HasColumn(r_summary, "total_h2_demand")
       THEN RRaise("KeyError", "industry", 0)
       ELSE RRaise(disaggregate_annual_to_hourly(1, WeekShape("uniform"),
                       IntArray([k \in 1..12 |-> 1]), r_summary[1].year).raised,
                   "industry", r_summary[1].year)
    /\ UNCHANGED <<r_settings, r_index, r_summary, r_files, r_trace,
                   dvars, pvars, cvars, ivars, tvars, avars, evars, nvars, qvars, svars>>

RNext ==
    \/ RMain
    \/ RTransportYear
    \/ RTransportReturn
    \/ RTransportProfile
    \/ RIndustryYear
    \/ RIndustryReturn
    \/ RIndustryProfile

RunSectors == {"transport", "industry"}

Enabled(sector) ==
    IF sector = "transport" THEN r_settings.model_transport_h2
    ELSE r_settings.model_industry_h2

\* The rows of a year, in the order of the frame
RowsOfYear(rows, year) ==
    LET keep == {k \in 1..Len(rows) : rows[k].year = year}
    IN Tuple([r \in 1..Cardinality(keep) |->
                 rows[CHOOSE k \in keep : Cardinality({j \in keep : j < k}) = r - 1]])

\* What a run of the sector over the one year alone returns
AloneRun(sector, k) ==
    model_sector_demand(sector, <<r_settings.parameters[k]>>, <<r_settings.years[k]>>, 0)

\* The sector's call has returned its summary, or has been ended by an exception
SectorEnded(sector) ==
    \/ r_files.summary[sector] # <<>>
    \/ r_pc = "raised" /\ r_raised.sector = sector /\ r_raised.year # 0

\* C21: when a sector's call over the listed years has ended, the rows it returned for
\* each listed year are the rows a call over that year alone, with the year's own
\* parameters, returns.
C21_YearsIndependent ==
    \A sector \in RunSectors :
        SectorEnded(sector)
            => \A k \in 1..Len(r_settings.years) :
                  RowsOfYear(r_files.summary[sector], r_settings.years[k])
                      = SortByZoneAndYear(AloneRun(sector, k).value)

\* C22: within a sector, once a stage of another model year has started, the year
\* before it has had its hourly disaggregation and runs no further stage.
C22_YearAfterYear ==
    \A i, j \in 1..Len(r_trace) :
        (i < j /\ r_trace[i].sector = r_trace[j].sector /\ r_trace[i].year # r_trace[j].year)
            => /\ \E k \in 1..(j - 1) :
                     r_trace[k] = Event(r_trace[i].sector, "hourly disaggregation",
                                        r_trace[i].year)
               /\ \A k \in (j + 1)..Len(r_trace) :
                     r_trace[k].sector = r_trace[i].sector
                         => r_trace[k].year # r_trace[i].year

\* C23: when an exception has ended the run, every enabled sector still has, in its
\* saved summary, the rows of every listed year that raises nothing on its own,
\* other than the sector and year the exception was raised in.
C23_FailureIsolated ==
    r_pc = "raised"
        => \A sector \in RunSectors :
              \A k \in 1..Len(r_settings.years) :
                  (/\ Enabled(sector)
                   /\ <<sector, r_settings.years[k]>> # <<r_raised.sector, r_raised.year>>
                   /\ AloneRun(sector, k).raised = "none")
                      => \E row \in 1..Len(r_files.summary[sector]) :
                            r_files.summary[sector][row].year = r_settings.years[k]

\* C28: a run with both sectors enabled, over years that raise nothing on their own,
\* ends past combine() and not with an exception for a missing column.
C28_ColumnsAgree ==
    (/\ r_pc \in {"done", "raised"}
     /\ r_settings.model_transport_h2 /\ r_settings.model_industry_h2
     /\ \A sector \in RunSectors :
           \A k \in 1..Len(r_settings.years) : AloneRun(sector, k).raised = "none")
        => r_pc = "done" /\ r_raised.exception # "KeyError"

----------------------------------------------------------------------------
(* Specifications: each runs one part of the program, the others staying idle *)

NoShapes == [ld_hourly |-> "uniform", hd_hourly |-> "uniform", ld_weekly |-> "uniform53",
             hd_weekly |-> "uniform53", weekday |-> "flat", weekend |-> "flat"]
NoSummary == [demand_col |-> "total_h2_demand", rows |-> <<>>]
NoCall == [annual_total |-> 0, hourly |-> "uniform", weekly |-> "uniform53",
           year |-> FirstModelYear]
NoProfiles == [z \in Zones |-> NoCsv]
NoGrids == [y \in ModelYears |-> NoGrid]
NoMecs == [naics \in all_naics |-> <<0, 1>>]
NoFacilities == [sector \in SectorNames |-> 0]
NoDiscrepancies ==
    [sector \in SectorNames |->
        [discrepancy_mmbtu |-> <<0, 1>>, mecs_mmbtu |-> <<0, 1>>, ghgrp_mmbtu |-> <<0, 1>>,
         mecs_to_ghgrp_ratio |-> NaN]]
NoLogs == [file \in {} |-> <<>>]
NoStateTable == [fips \in StateFips |-> <<>>]
NoParameters == [raised |-> "none", value |-> <<>>]
NoFuelRow == [fips |-> 0, gas |-> 0, diesel |-> 0]
NoSettings == [model_transport_h2 |-> FALSE, model_industry_h2 |-> FALSE, years |-> <<>>,
               parameters |-> <<>>]
NoOutputs == [summary |-> [s \in {"transport", "industry"} |-> <<>>],
              grids |-> [s \in {"transport", "industry"} |-> {}],
              profiles |-> [s \in {"transport", "industry"} |-> {}]]

\* A call of disaggregate_annual_to_hourly with arguments of the bounded families
DisaggInit ==
    /\ d_in \in [annual_total : AnnualTotals, hourly : WeekShapeNames,
                 weekly : YearShapeNames, year : ModelYears]
    /\ d_pc = "call"
    /\ d_out = Raised("none")
    /\ p_sector = "none" /\ p_summary = NoSummary /\ p_shapes = NoShapes
    /\ p_pc = "idle" /\ p_raised = "none" /\ p_row = 1
    /\ previous_load_zone = "none" /\ profile_across_years = <<>>
    /\ p_files = [z \in Zones |-> NoFile]
    /\ c_transport_profiles = NoProfiles /\ c_industry_profiles = NoProfiles
    /\ c_transport_grids = NoGrids /\ c_industry_grids = NoGrids
    /\ c_pc = "idle" /\ c_raised = "none" /\ c_todo = {}
    /\ c_combined_profiles = NoProfiles /\ c_combined_grids = NoGrids
    /\ results_by_facility_df = <<>> /\ breakdown_by_fuel_df = <<>>
    /\ mecs_data = NoMecs /\ missing_facilities = NoFacilities
    /\ extra_facilities = NoFacilities /\ discrepancies_by_sector = NoDiscrepancies
    /\ i_pc = "idle" /\ i_raised = "none" /\ i_todo = {} /\ i_sector = 1
    /\ logs = NoLogs
    /\ existing_h2_plants_df = <<>> /\ filtered_df = <<>>
    /\ aggregated_by_lz = <<>> /\ result_grid = <<>>
    /\ state_h2_demand = NoStateTable /\ state_vmts_totals_dict = NoStateTable
    /\ t_todo = {} /\ t_state_df = NoStateTable /\ load_zone_summary = <<>>
    /\ load_zone_summary_df = <<>> /\ wecc_vmt_grid = <<>> /\ t_pc = "idle"
    /\ facility_df = <<>> /\ a_pc = "idle" /\ a_out = <<>>
    /\ industry_facilities_df = <<>> /\ breakdown_by_fuel = <<>> /\ results_by_sector = <<>>
    /\ facility_fuel_demand_mmBtu = <<0, 1>> /\ proj_facility_fuel_demand_mmBtu = <<0, 1>>
    /\ e_unit = 1 /\ e_pc = "idle" /\ e_raised = "none"
    /\ n_profile = NoArray /\ n_out = <<>> /\ n_pc = "idle"
    /\ q_year = FirstTableYear /\ q_out = NoParameters /\ q_pc = "idle"
    /\ s_row = NoFuelRow /\ s_assumptions = <<>> /\ s_ld_pct = 0 /\ s_hd_pct = 0
    /\ s_out = <<>> /\ s_pc = "idle"
    /\ r_settings = NoSettings /\ r_pc = "idle" /\ r_index = 0 /\ r_summary = <<>>
    /\ r_files = NoOutputs /\ r_trace = <<>> /\ r_raised = NoFailure

DisaggSpec == DisaggInit /\ [][DCall]_vars

\* build_profile of either sector, called with the sector's load-zone summary; the
\* industry summary names its demand column as build_profile documents it or as
\* aggregate_by_lz writes it
ProfileInit ==
    /\ d_in = NoCall /\ d_pc = "idle" /\ d_out = Raised("none")
    /\ p_sector \in {"transport", "industry"}
    /\ \E nzones \in 1..MaxZones, years \in YearLists, seed \in 1..2 :
          p_summary \in [demand_col : IF p_sector = "transport" THEN {"total_h2_demand"}
                                      ELSE {"total_h2_demand", "total_h2_demand_kg"},
                         rows : {SummaryRows(nzones, years, seed)}]
    /\ p_shapes \in
          IF p_sector = "transport"
          THEN [ld_hourly : {"weekend"}, hd_hourly : {"weekend", "zero"},
                ld_weekly : {"uniform53", "ramp53"}, hd_weekly : {"ramp53"},
                weekday : {"flat"}, weekend : {"flat"}]
          ELSE [ld_hourly : {"uniform"}, hd_hourly : {"uniform"},
                ld_weekly : {"uniform53"}, hd_weekly : {"uniform53"},
                weekday : DayShapeNames, weekend : {"flat"}]
    /\ p_pc = "start"
    /\ p_raised = "none"
    /\ p_row = 1
    /\ previous_load_zone = "none"
    /\ profile_across_years = <<>>
    /\ p_files = [z \in Zones |-> NoFile]
    /\ c_transport_profiles = NoProfiles /\ c_industry_profiles = NoProfiles
    /\ c_transport_grids = NoGrids /\ c_industry_grids = NoGrids
    /\ c_pc = "idle" /\ c_raised = "none" /\ c_todo = {}
    /\ c_combined_profiles = NoProfiles /\ c_combined_grids = NoGrids
    /\ results_by_facility_df = <<>> /\ breakdown_by_fuel_df = <<>>
    /\ mecs_data = NoMecs /\ missing_facilities = NoFacilities
    /\ extra_facilities = NoFacilities /\ discrepancies_by_sector = NoDiscrepancies
    /\ i_pc = "idle" /\ i_raised = "none" /\ i_todo = {} /\ i_sector = 1
    /\ logs = NoLogs
    /\ existing_h2_plants_df = <<>> /\ filtered_df = <<>>
    /\ aggregated_by_lz = <<>> /\ result_grid = <<>>
    /\ state_h2_demand = NoStateTable /\ state_vmts_totals_dict = NoStateTable
    /\ t_todo = {} /\ t_state_df = NoStateTable /\ load_zone_summary = <<>>
    /\ load_zone_summary_df = <<>> /\ wecc_vmt_grid = <<>> /\ t_pc = "idle"
    /\ facility_df = <<>> /\ a_pc = "idle" /\ a_out = <<>>
    /\ industry_facilities_df = <<>> /\ breakdown_by_fuel = <<>> /\ results_by_sector = <<>>
    /\ facility_fuel_demand_mmBtu = <<0, 1>> /\ proj_facility_fuel_demand_mmBtu = <<0, 1>>
    /\ e_unit = 1 /\ e_pc = "idle" /\ e_raised = "none"
    /\ n_profile = NoArray /\ n_out = <<>> /\ n_pc = "idle"
    /\ q_year = FirstTableYear /\ q_out = NoParameters /\ q_pc = "idle"
    /\ s_row = NoFuelRow /\ s_assumptions = <<>> /\ s_ld_pct = 0 /\ s_hd_pct = 0
    /\ s_out = <<>> /\ s_pc = "idle"
    /\ r_settings = NoSettings /\ r_pc = "idle" /\ r_index = 0 /\ r_summary = <<>>
    /\ r_files = NoOutputs /\ r_trace = <<>> /\ r_raised = NoFailure

ProfileSpec == ProfileInit /\ [][PNext]_vars

\* combine(), called on an outputs/ folder in which each sector has written
\* profiles for its load zones and a grid for each of its model years.  The demand
\* column of the profiles and of the transport grid is named as the sector's writer
\* names it or as combine_results reads it.
CombineInit ==
    /\ d_in = NoCall /\ d_pc = "idle" /\ d_out = Raised("none")
    /\ p_sector = "none" /\ p_summary = NoSummary /\ p_shapes = NoShapes
    /\ p_pc = "idle" /\ p_raised = "none" /\ p_row = 1
    /\ previous_load_zone = "none" /\ profile_across_years = <<>>
    /\ p_files = [z \in Zones |-> NoFile]
    /\ \E tz \in SUBSET {ZoneNames[k] : k \in 1..MaxZones},
          iz \in SUBSET {ZoneNames[k] : k \in 1..MaxZones},
          ty \in CombineYearLists, iy \in CombineYearLists,
          tc \in (SUBSET {CellNames[k] : k \in 1..MaxCells}) \ {{}},
          ic \in (SUBSET {CellNames[k] : k \in 1..MaxCells}) \ {{}},
          col \in {"total_h2_demand", "total_h2_demand_kg"} :
          /\ c_transport_profiles =
                [z \in Zones |-> IF z \in tz THEN ProfileCsv("transport", z, ty, col)
                                 ELSE NoCsv]
          /\ c_industry_profiles =
                [z \in Zones |-> IF z \in iz THEN ProfileCsv("industry", z, iy, col)
                                 ELSE NoCsv]
          /\ c_transport_grids =
                [y \in ModelYears |-> IF y \in SeqRange(ty)
                                      THEN GridFile("transport", tc, y, col) ELSE NoGrid]
          /\ c_industry_grids =
                [y \in ModelYears |-> IF y \in SeqRange(iy)
                                      THEN GridFile("industry", ic, y, "total_h2_demand_kg")
                                      ELSE NoGrid]
    /\ c_pc = "combine"
    /\ c_raised = "none"
    /\ c_todo = {}
    /\ c_combined_profiles = NoProfiles
    /\ c_combined_grids = NoGrids
    /\ results_by_facility_df = <<>> /\ breakdown_by_fuel_df = <<>>
    /\ mecs_data = NoMecs /\ missing_facilities = NoFacilities
    /\ extra_facilities = NoFacilities /\ discrepancies_by_sector = NoDiscrepancies
    /\ i_pc = "idle" /\ i_raised = "none" /\ i_todo = {} /\ i_sector = 1
    /\ logs = NoLogs
    /\ existing_h2_plants_df = <<>> /\ filtered_df = <<>>
    /\ aggregated_by_lz = <<>> /\ result_grid = <<>>
    /\ state_h2_demand = NoStateTable /\ state_vmts_totals_dict = NoStateTable
    /\ t_todo = {} /\ t_state_df = NoStateTable /\ load_zone_summary = <<>>
    /\ load_zone_summary_df = <<>> /\ wecc_vmt_grid = <<>> /\ t_pc = "idle"
    /\ facility_df = <<>> /\ a_pc = "idle" /\ a_out = <<>>
    /\ industry_facilities_df = <<>> /\ breakdown_by_fuel = <<>> /\ results_by_sector = <<>>
    /\ facility_fuel_demand_mmBtu = <<0, 1>> /\ proj_facility_fuel_demand_mmBtu = <<0, 1>>
    /\ e_unit = 1 /\ e_pc = "idle" /\ e_raised = "none"
    /\ n_profile = NoArray /\ n_out = <<>> /\ n_pc = "idle"
    /\ q_year = FirstTableYear /\ q_out = NoParameters /\ q_pc = "idle"
    /\ s_row = NoFuelRow /\ s_assumptions = <<>> /\ s_ld_pct = 0 /\ s_hd_pct = 0
    /\ s_out = <<>> /\ s_pc = "idle"
    /\ r_settings = NoSettings /\ r_pc = "idle" /\ r_index = 0 /\ r_summary = <<>>
    /\ r_files = NoOutputs /\ r_trace = <<>> /\ r_raised = NoFailure

CombineSpec == CombineInit /\ [][CNext]_vars

\* model_one_year after step 1: calc_epa_ghgrp_fuel_consumption has returned the
\* facility records of each sector file and their breakdown
IndustryInit ==
    /\ d_in = NoCall /\ d_pc = "idle" /\ d_out = Raised("none")
    /\ p_sector = "none" /\ p_summary = NoSummary /\ p_shapes = NoShapes
    /\ p_pc = "idle" /\ p_raised = "none" /\ p_row = 1
    /\ previous_load_zone = "none" /\ profile_across_years = <<>>
    /\ p_files = [z \in Zones |-> NoFile]
    /\ c_transport_profiles = NoProfiles /\ c_industry_profiles = NoProfiles
    /\ c_transport_grids = NoGrids /\ c_industry_grids = NoGrids
    /\ c_pc = "idle" /\ c_raised = "none" /\ c_todo = {}
    /\ c_combined_profiles = NoProfiles /\ c_combined_grids = NoGrids
    /\ \E n_steel \in 0..MaxFacilities, n_cement \in 0..MaxFacilities,
          steel_naics \in {"331110", "3312"}, all_west \in BOOLEAN :
          results_by_facility_df =
              GhgrpRecords("Iron_and_Steel", steel_naics, n_steel, all_west)
                  \o GhgrpRecords("Cement", "327310", n_cement, all_west)
    /\ breakdown_by_fuel_df = results_by_facility_df
    /\ mecs_data \in [all_naics -> MecsTotals]
    /\ missing_facilities \in {[sector \in SectorNames |-> n] : n \in 0..MaxMissing}
    /\ extra_facilities \in {[sector \in SectorNames |-> n] : n \in 0..MaxExtra}
    /\ discrepancies_by_sector = NoDiscrepancies
    /\ logs = NoLogs
    /\ existing_h2_plants_df = <<>> /\ filtered_df = <<>>
    /\ aggregated_by_lz = <<>> /\ result_grid = <<>>
    /\ state_h2_demand = NoStateTable /\ state_vmts_totals_dict = NoStateTable
    /\ t_todo = {} /\ t_state_df = NoStateTable /\ load_zone_summary = <<>>
    /\ load_zone_summary_df = <<>> /\ wecc_vmt_grid = <<>> /\ t_pc = "idle"
    /\ facility_df = <<>> /\ a_pc = "idle" /\ a_out = <<>>
    /\ industry_facilities_df = <<>> /\ breakdown_by_fuel = <<>> /\ results_by_sector = <<>>
    /\ facility_fuel_demand_mmBtu = <<0, 1>> /\ proj_facility_fuel_demand_mmBtu = <<0, 1>>
    /\ e_unit = 1 /\ e_pc = "idle" /\ e_raised = "none"
    /\ n_profile = NoArray /\ n_out = <<>> /\ n_pc = "idle"
    /\ q_year = FirstTableYear /\ q_out = NoParameters /\ q_pc = "idle"
    /\ s_row = NoFuelRow /\ s_assumptions = <<>> /\ s_ld_pct = 0 /\ s_hd_pct = 0
    /\ s_out = <<>> /\ s_pc = "idle"
    /\ r_settings = NoSettings /\ r_pc = "idle" /\ r_index = 0 /\ r_summary = <<>>
    /\ r_files = NoOutputs /\ r_trace = <<>> /\ r_raised = NoFailure
    /\ i_pc = "step2"
    /\ i_raised = "none"
    /\ i_todo = SectorNames
    /\ i_sector = 1

IndustrySpec == IndustryInit /\ [][INext]_vars

\* One year's pass of model_transport_demand from the call of
\* disaggregate_by_load_zone on: the state demands are its argument, and
\* state_VMT_summary.csv has been read
TransportInit ==
    /\ d_in = NoCall /\ d_pc = "idle" /\ d_out = Raised("none")
    /\ p_sector = "none" /\ p_summary = NoSummary /\ p_shapes = NoShapes
    /\ p_pc = "idle" /\ p_raised = "none" /\ p_row = 1
    /\ previous_load_zone = "none" /\ profile_across_years = <<>>
    /\ p_files = [z \in Zones |-> NoFile]
    /\ c_transport_profiles = NoProfiles /\ c_industry_profiles = NoProfiles
    /\ c_transport_grids = NoGrids /\ c_industry_grids = NoGrids
    /\ c_pc = "idle" /\ c_raised = "none" /\ c_todo = {}
    /\ c_combined_profiles = NoProfiles /\ c_combined_grids = NoGrids
    /\ results_by_facility_df = <<>> /\ breakdown_by_fuel_df = <<>>
    /\ mecs_data = NoMecs /\ missing_facilities = NoFacilities
    /\ extra_facilities = NoFacilities /\ discrepancies_by_sector = NoDiscrepancies
    /\ i_pc = "idle" /\ i_raised = "none" /\ i_todo = {} /\ i_sector = 1
    /\ logs = NoLogs
    /\ existing_h2_plants_df = <<>> /\ filtered_df = <<>>
    /\ aggregated_by_lz = <<>> /\ result_grid = <<>>
    /\ \E ld \in 0..MaxStateDemand, hd \in 0..MaxStateDemand :
          state_h2_demand =
              [fips \in StateFips |-> <<<<3 * ld, 1>>, <<2 * hd, 1>>, <<3 * ld + 2 * hd, 1>>>>]
    /\ \E total \in 0..MaxVmtTotal :
          state_vmts_totals_dict = [fips \in StateFips |-> <<total, total>>]
    /\ t_todo = StateFips
    /\ t_state_df = NoStateTable
    /\ load_zone_summary = <<>>
    /\ load_zone_summary_df = <<>>
    /\ wecc_vmt_grid = <<>>
    /\ t_pc = "loop"
    /\ facility_df = <<>> /\ a_pc = "idle" /\ a_out = <<>>
    /\ industry_facilities_df = <<>> /\ breakdown_by_fuel = <<>> /\ results_by_sector = <<>>
    /\ facility_fuel_demand_mmBtu = <<0, 1>> /\ proj_facility_fuel_demand_mmBtu = <<0, 1>>
    /\ e_unit = 1 /\ e_pc = "idle" /\ e_raised = "none"
    /\ n_profile = NoArray /\ n_out = <<>> /\ n_pc = "idle"
    /\ q_year = FirstTableYear /\ q_out = NoParameters /\ q_pc = "idle"
    /\ s_row = NoFuelRow /\ s_assumptions = <<>> /\ s_ld_pct = 0 /\ s_hd_pct = 0
    /\ s_out = <<>> /\ s_pc = "idle"
    /\ r_settings = NoSettings /\ r_pc = "idle" /\ r_index = 0 /\ r_summary = <<>>
    /\ r_files = NoOutputs /\ r_trace = <<>> /\ r_raised = NoFailure

TransportSpec == TransportInit /\ [][TNext]_vars

\* A call of aggregate_by_lz on a frame of facilities
AggregateInit ==
    /\ d_in = NoCall /\ d_pc = "idle" /\ d_out = Raised("none")
    /\ p_sector = "none" /\ p_summary = NoSummary /\ p_shapes = NoShapes
    /\ p_pc = "idle" /\ p_raised = "none" /\ p_row = 1
    /\ previous_load_zone = "none" /\ profile_across_years = <<>>
    /\ p_files = [z \in Zones |-> NoFile]
    /\ c_transport_profiles = NoProfiles /\ c_industry_profiles = NoProfiles
    /\ c_transport_grids = NoGrids /\ c_industry_grids = NoGrids
    /\ c_pc = "idle" /\ c_raised = "none" /\ c_todo = {}
    /\ c_combined_profiles = NoProfiles /\ c_combined_grids = NoGrids
    /\ results_by_facility_df = <<>> /\ breakdown_by_fuel_df = <<>>
    /\ mecs_data = NoMecs /\ missing_facilities = NoFacilities
    /\ extra_facilities = NoFacilities /\ discrepancies_by_sector = NoDiscrepancies
    /\ i_pc = "idle" /\ i_raised = "none" /\ i_todo = {} /\ i_sector = 1
    /\ logs = NoLogs
    /\ existing_h2_plants_df = <<>> /\ filtered_df = <<>>
    /\ aggregated_by_lz = <<>> /\ result_grid = <<>>
    /\ state_h2_demand = NoStateTable /\ state_vmts_totals_dict = NoStateTable
    /\ t_todo = {} /\ t_state_df = NoStateTable /\ load_zone_summary = <<>>
    /\ load_zone_summary_df = <<>> /\ wecc_vmt_grid = <<>> /\ t_pc = "idle"
    /\ \E n \in 0..MaxPoints : facility_df \in FacilityFrames(n)
    /\ a_pc = "call"
    /\ a_out = <<>>
    /\ industry_facilities_df = <<>> /\ breakdown_by_fuel = <<>> /\ results_by_sector = <<>>
    /\ facility_fuel_demand_mmBtu = <<0, 1>> /\ proj_facility_fuel_demand_mmBtu = <<0, 1>>
    /\ e_unit = 1 /\ e_pc = "idle" /\ e_raised = "none"
    /\ n_profile = NoArray /\ n_out = <<>> /\ n_pc = "idle"
    /\ q_year = FirstTableYear /\ q_out = NoParameters /\ q_pc = "idle"
    /\ s_row = NoFuelRow /\ s_assumptions = <<>> /\ s_ld_pct = 0 /\ s_hd_pct = 0
    /\ s_out = <<>> /\ s_pc = "idle"
    /\ r_settings = NoSettings /\ r_pc = "idle" /\ r_index = 0 /\ r_summary = <<>>
    /\ r_files = NoOutputs /\ r_trace = <<>> /\ r_raised = NoFailure

AggregateSpec == AggregateInit /\ [][ACall]_vars

\* calc_epa_ghgrp_fuel_consumption at the first unit of a file of units_and_fuel/
EpaInit ==
    /\ d_in = NoCall /\ d_pc = "idle" /\ d_out = Raised("none")
    /\ p_sector = "none" /\ p_summary = NoSummary /\ p_shapes = NoShapes
    /\ p_pc = "idle" /\ p_raised = "none" /\ p_row = 1
    /\ previous_load_zone = "none" /\ profile_across_years = <<>>
    /\ p_files = [z \in Zones |-> NoFile]
    /\ c_transport_profiles = NoProfiles /\ c_industry_profiles = NoProfiles
    /\ c_transport_grids = NoGrids /\ c_industry_grids = NoGrids
    /\ c_pc = "idle" /\ c_raised = "none" /\ c_todo = {}
    /\ c_combined_profiles = NoProfiles /\ c_combined_grids = NoGrids
    /\ results_by_facility_df = <<>> /\ breakdown_by_fuel_df = <<>>
    /\ mecs_data = NoMecs /\ missing_facilities = NoFacilities
    /\ extra_facilities = NoFacilities /\ discrepancies_by_sector = NoDiscrepancies
    /\ i_pc = "idle" /\ i_raised = "none" /\ i_todo = {} /\ i_sector = 1
    /\ logs = NoLogs
    /\ existing_h2_plants_df = <<>> /\ filtered_df = <<>>
    /\ aggregated_by_lz = <<>> /\ result_grid = <<>>
    /\ state_h2_demand = NoStateTable /\ state_vmts_totals_dict = NoStateTable
    /\ t_todo = {} /\ t_state_df = NoStateTable /\ load_zone_summary = <<>>
    /\ load_zone_summary_df = <<>> /\ wecc_vmt_grid = <<>> /\ t_pc = "idle"
    /\ facility_df = <<>> /\ a_pc = "idle" /\ a_out = <<>>
    /\ \E n \in 1..MaxUnits : industry_facilities_df \in UnitFiles(n)
    /\ breakdown_by_fuel = <<>>
    /\ results_by_sector = <<>>
    /\ facility_fuel_demand_mmBtu = <<0, 1>>
    /\ proj_facility_fuel_demand_mmBtu = <<0, 1>>
    /\ e_unit = 1
    /\ e_pc = "loop"
    /\ e_raised = "none"
    /\ n_profile = NoArray /\ n_out = <<>> /\ n_pc = "idle"
    /\ q_year = FirstTableYear /\ q_out = NoParameters /\ q_pc = "idle"
    /\ s_row = NoFuelRow /\ s_assumptions = <<>> /\ s_ld_pct = 0 /\ s_hd_pct = 0
    /\ s_out = <<>> /\ s_pc = "idle"
    /\ r_settings = NoSettings /\ r_pc = "idle" /\ r_index = 0 /\ r_summary = <<>>
    /\ r_files = NoOutputs /\ r_trace = <<>> /\ r_raised = NoFailure

EpaSpec == EpaInit /\ [][ENext]_vars

\* Normalizations of a shape of the bounded family
NormInit ==
    /\ d_in = NoCall /\ d_pc = "idle" /\ d_out = Raised("none")
    /\ p_sector = "none" /\ p_summary = NoSummary /\ p_shapes = NoShapes
    /\ p_pc = "idle" /\ p_raised = "none" /\ p_row = 1
    /\ previous_load_zone = "none" /\ profile_across_years = <<>>
    /\ p_files = [z \in Zones |-> NoFile]
    /\ c_transport_profiles = NoProfiles /\ c_industry_profiles = NoProfiles
    /\ c_transport_grids = NoGrids /\ c_industry_grids = NoGrids
    /\ c_pc = "idle" /\ c_raised = "none" /\ c_todo = {}
    /\ c_combined_profiles = NoProfiles /\ c_combined_grids = NoGrids
    /\ results_by_facility_df = <<>> /\ breakdown_by_fuel_df = <<>>
    /\ mecs_data = NoMecs /\ missing_facilities = NoFacilities
    /\ extra_facilities = NoFacilities /\ discrepancies_by_sector = NoDiscrepancies
    /\ i_pc = "idle" /\ i_raised = "none" /\ i_todo = {} /\ i_sector = 1
    /\ logs = NoLogs
    /\ existing_h2_plants_df = <<>> /\ filtered_df = <<>>
    /\ aggregated_by_lz = <<>> /\ result_grid = <<>>
    /\ state_h2_demand = NoStateTable /\ state_vmts_totals_dict = NoStateTable
    /\ t_todo = {} /\ t_state_df = NoStateTable /\ load_zone_summary = <<>>
    /\ load_zone_summary_df = <<>> /\ wecc_vmt_grid = <<>> /\ t_pc = "idle"
    /\ facility_df = <<>> /\ a_pc = "idle" /\ a_out = <<>>
    /\ industry_facilities_df = <<>> /\ breakdown_by_fuel = <<>> /\ results_by_sector = <<>>
    /\ facility_fuel_demand_mmBtu = <<0, 1>> /\ proj_facility_fuel_demand_mmBtu = <<0, 1>>
    /\ e_unit = 1 /\ e_pc = "idle" /\ e_raised = "none"
    /\ \E n \in 1..MaxWeights : n_profile \in Shapes(n)
    /\ n_out = <<>>
    /\ n_pc = "call"
    /\ q_year = FirstTableYear /\ q_out = NoParameters /\ q_pc = "idle"
    /\ s_row = NoFuelRow /\ s_assumptions = <<>> /\ s_ld_pct = 0 /\ s_hd_pct = 0
    /\ s_out = <<>> /\ s_pc = "idle"
    /\ r_settings = NoSettings /\ r_pc = "idle" /\ r_index = 0 /\ r_summary = <<>>
    /\ r_files = NoOutputs /\ r_trace = <<>> /\ r_raised = NoFailure

NormSpec == NormInit /\ [][NCall]_vars

\* Calls of get_transport_parameters for the years in and around the tables
ParamInit ==
    /\ d_in = NoCall /\ d_pc = "idle" /\ d_out = Raised("none")
    /\ p_sector = "none" /\ p_summary = NoSummary /\ p_shapes = NoShapes
    /\ p_pc = "idle" /\ p_raised = "none" /\ p_row = 1
    /\ previous_load_zone = "none" /\ profile_across_years = <<>>
    /\ p_files = [z \in Zones |-> NoFile]
    /\ c_transport_profiles = NoProfiles /\ c_industry_profiles = NoProfiles
    /\ c_transport_grids = NoGrids /\ c_industry_grids = NoGrids
    /\ c_pc = "idle" /\ c_raised = "none" /\ c_todo = {}
    /\ c_combined_profiles = NoProfiles /\ c_combined_grids = NoGrids
    /\ results_by_facility_df = <<>> /\ breakdown_by_fuel_df = <<>>
    /\ mecs_data = NoMecs /\ missing_facilities = NoFacilities
    /\ extra_facilities = NoFacilities /\ discrepancies_by_sector = NoDiscrepancies
    /\ i_pc = "idle" /\ i_raised = "none" /\ i_todo = {} /\ i_sector = 1
    /\ logs = NoLogs
    /\ existing_h2_plants_df = <<>> /\ filtered_df = <<>>
    /\ aggregated_by_lz = <<>> /\ result_grid = <<>>
    /\ state_h2_demand = NoStateTable /\ state_vmts_totals_dict = NoStateTable
    /\ t_todo = {} /\ t_state_df = NoStateTable /\ load_zone_summary = <<>>
    /\ load_zone_summary_df = <<>> /\ wecc_vmt_grid = <<>> /\ t_pc = "idle"
    /\ facility_df = <<>> /\ a_pc = "idle" /\ a_out = <<>>
    /\ industry_facilities_df = <<>> /\ breakdown_by_fuel = <<>> /\ results_by_sector = <<>>
    /\ facility_fuel_demand_mmBtu = <<0, 1>> /\ proj_facility_fuel_demand_mmBtu = <<0, 1>>
    /\ e_unit = 1 /\ e_pc = "idle" /\ e_raised = "none"
    /\ n_profile = NoArray /\ n_out = <<>> /\ n_pc = "idle"
    /\ q_year \in LookupYears
    /\ q_out = NoParameters
    /\ q_pc = "call"
    /\ s_row = NoFuelRow /\ s_assumptions = <<>> /\ s_ld_pct = 0 /\ s_hd_pct = 0
    /\ s_out = <<>> /\ s_pc = "idle"
    /\ r_settings = NoSettings /\ r_pc = "idle" /\ r_index = 0 /\ r_summary = <<>>
    /\ r_files = NoOutputs /\ r_trace = <<>> /\ r_raised = NoFailure

ParamSpec == ParamInit /\ [][QCall]_vars

\* One pass of the state loop of model_transport_demand for a row of the bounded family
DemandInit ==
    /\ d_in = NoCall /\ d_pc = "idle" /\ d_out = Raised("none")
    /\ p_sector = "none" /\ p_summary = NoSummary /\ p_shapes = NoShapes
    /\ p_pc = "idle" /\ p_raised = "none" /\ p_row = 1
    /\ previous_load_zone = "none" /\ profile_across_years = <<>>
    /\ p_files = [z \in Zones |-> NoFile]
    /\ c_transport_profiles = NoProfiles /\ c_industry_profiles = NoProfiles
    /\ c_transport_grids = NoGrids /\ c_industry_grids = NoGrids
    /\ c_pc = "idle" /\ c_raised = "none" /\ c_todo = {}
    /\ c_combined_profiles = NoProfiles /\ c_combined_grids = NoGrids
    /\ results_by_facility_df = <<>> /\ breakdown_by_fuel_df = <<>>
    /\ mecs_data = NoMecs /\ missing_facilities = NoFacilities
    /\ extra_facilities = NoFacilities /\ discrepancies_by_sector = NoDiscrepancies
    /\ i_pc = "idle" /\ i_raised = "none" /\ i_todo = {} /\ i_sector = 1
    /\ logs = NoLogs
    /\ existing_h2_plants_df = <<>> /\ filtered_df = <<>>
    /\ aggregated_by_lz = <<>> /\ result_grid = <<>>
    /\ state_h2_demand = NoStateTable /\ state_vmts_totals_dict = NoStateTable
    /\ t_todo = {} /\ t_state_df = NoStateTable /\ load_zone_summary = <<>>
    /\ load_zone_summary_df = <<>> /\ wecc_vmt_grid = <<>> /\ t_pc = "idle"
    /\ facility_df = <<>> /\ a_pc = "idle" /\ a_out = <<>>
    /\ industry_facilities_df = <<>> /\ breakdown_by_fuel = <<>> /\ results_by_sector = <<>>
    /\ facility_fuel_demand_mmBtu = <<0, 1>> /\ proj_facility_fuel_demand_mmBtu = <<0, 1>>
    /\ e_unit = 1 /\ e_pc = "idle" /\ e_raised = "none"
    /\ n_profile = NoArray /\ n_out = <<>> /\ n_pc = "idle"
    /\ q_year = FirstTableYear /\ q_out = NoParameters /\ q_pc = "idle"
    /\ s_row \in FuelDataRows
    /\ s_assumptions \in AssumptionLists
    /\ s_ld_pct \in PenetrationPcts
    /\ s_hd_pct \in PenetrationPcts
    /\ s_out = <<>>
    /\ s_pc = "row"
    /\ r_settings = NoSettings /\ r_pc = "idle" /\ r_index = 0 /\ r_summary = <<>>
    /\ r_files = NoOutputs /\ r_trace = <<>> /\ r_raised = NoFailure

DemandSpec == DemandInit /\ [][SRow]_vars

\* A run of main with settings of the bounded family
RunInit ==
    /\ d_in = NoCall /\ d_pc = "idle" /\ d_out = Raised("none")
    /\ p_sector = "none" /\ p_summary = NoSummary /\ p_shapes = NoShapes
    /\ p_pc = "idle" /\ p_raised = "none" /\ p_row = 1
    /\ previous_load_zone = "none" /\ profile_across_years = <<>>
    /\ p_files = [z \in Zones |-> NoFile]
    /\ c_transport_profiles = NoProfiles /\ c_industry_profiles = NoProfiles
    /\ c_transport_grids = NoGrids /\ c_industry_grids = NoGrids
    /\ c_pc = "idle" /\ c_raised = "none" /\ c_todo = {}
    /\ c_combined_profiles = NoProfiles /\ c_combined_grids = NoGrids
    /\ results_by_facility_df = <<>> /\ breakdown_by_fuel_df = <<>>
    /\ mecs_data = NoMecs /\ missing_facilities = NoFacilities
    /\ extra_facilities = NoFacilities /\ discrepancies_by_sector = NoDiscrepancies
    /\ i_pc = "idle" /\ i_raised = "none" /\ i_todo = {} /\ i_sector = 1
    /\ logs = NoLogs
    /\ existing_h2_plants_df = <<>> /\ filtered_df = <<>>
    /\ aggregated_by_lz = <<>> /\ result_grid = <<>>
    /\ state_h2_demand = NoStateTable /\ state_vmts_totals_dict = NoStateTable
    /\ t_todo = {} /\ t_state_df = NoStateTable /\ load_zone_summary = <<>>
    /\ load_zone_summary_df = <<>> /\ wecc_vmt_grid = <<>> /\ t_pc = "idle"
    /\ facility_df = <<>> /\ a_pc = "idle" /\ a_out = <<>>
    /\ industry_facilities_df = <<>> /\ breakdown_by_fuel = <<>> /\ results_by_sector = <<>>
    /\ facility_fuel_demand_mmBtu = <<0, 1>> /\ proj_facility_fuel_demand_mmBtu = <<0, 1>>
    /\ e_unit = 1 /\ e_pc = "idle" /\ e_raised = "none"
    /\ n_profile = NoArray /\ n_out = <<>> /\ n_pc = "idle"
    /\ q_year = FirstTableYear /\ q_out = NoParameters /\ q_pc = "idle"
    /\ s_row = NoFuelRow /\ s_assumptions = <<>> /\ s_ld_pct = 0 /\ s_hd_pct = 0
    /\ s_out = <<>> /\ s_pc = "idle"
    /\ \E n \in 1..MaxRunYears : r_settings \in RunSettings(n)
    /\ r_pc = "main"
    /\ r_index = 0
    /\ r_summary = <<>>
    /\ r_files = NoOutputs
    /\ r_trace = <<>>
    /\ r_raised = NoFailure

RunSpec == RunInit /\ [][RNext]_vars

====
